---- MODULE Spec2Model ----
(***************************************************************************)
(* The hierarchy store of the learning platform (LearningPathService) and  *)
(* the route handlers that generate modules, concepts, content and notes   *)
(* on top of it.  Identifiers are strings; hours and minutes are integers; *)
(* names, descriptions and objectives (payload no operation reads) are     *)
(* left out of the records.                                                *)
(***************************************************************************)
EXTENDS Integers, Sequences, FiniteSets, TLC

\* ---------------------------------------------------------------- bounds
\* longest selected_topic_ids list a request carries
MaxSel == 2
\* longest user_sessions list (create_learning_path appends without limit)
MaxUserSessions == 2
\* longest module list the generation backend returns
MaxModules == 2
\* longest concept list the generation backend returns
MaxConcepts == 2
\* most Generation Client calls counted for one parent
MaxCalls == 2

\* ------------------------------------------------------ program constants
MaxAttempts == 3

DefaultModuleHours == 2
MaxModuleHours == 10
DefaultConceptMinutes == 15
MinConceptMinutes == 5
MaxConceptMinutes == 30

\* Python's None, where an identifier is optional
None == "None"

\* --------------------------------------------------------------- helpers
SeqToSet(q) == {q[i] : i \in DOMAIN q}

SeqsUpTo(S, n) == UNION {[1..k -> S] : k \in 0..n}


\* a Python dict whose iteration order is not observed: a function on the
\* keys present
EmptyMap == [x \in {} |-> x]

MapSet(f, k, v) == [x \in (DOMAIN f) \cup {k} |-> IF x = k THEN v ELSE f[x]]

MapDel(f, k) == [x \in (DOMAIN f) \ {k} |-> f[x]]

\* a Python dict whose iteration order is observed (the scans of the store):
\* the sequence of its items in insertion order
DictKeys(d) == {d[i].k : i \in DOMAIN d}

DictHas(d, k) == k \in DictKeys(d)

DictIdx(d, k) == CHOOSE i \in DOMAIN d : d[i].k = k

DictGet(d, k) == d[DictIdx(d, k)].v

DictSet(d, k, v) ==
    IF DictHas(d, k) THEN [d EXCEPT ![DictIdx(d, k)].v = v]
    ELSE Append(d, [k |-> k, v |-> v])

DictDelAll(d, ks) == SelectSeq(d, LAMBDA e : e.k \notin ks)

\* ------------------------------------------------------------- the state
VARIABLES
    learning_paths,     \* session_id -> LearningPath
    tocs,               \* session_id -> TableOfContents
    topic_modules,      \* session_id -> dict topic_id -> TopicWithModules
    module_concepts,    \* session_id -> dict module_id -> ModuleWithConcepts
    user_sessions,      \* user_id -> list of session_ids
    current_selections, \* session_id -> cursor
    running,            \* request -> the handler that is inside its generator call
    queued,             \* request -> a request sent and not yet handled
    client_calls,       \* history: Generation Client calls made for the children stored
    last                \* history: the last request handled and its response

store == <<learning_paths, tocs, topic_modules, module_concepts,
           user_sessions, current_selections>>

vars == <<learning_paths, tocs, topic_modules, module_concepts,
          user_sessions, current_selections, running, queued, client_calls, last>>

\* what update_learning_path found before it changed the store: the cursor's
\* topic, the path's total hours, the removed topics that had modules, the module ids whose concepts
\* it deleted
NoPrior == [topic |-> None, hours |-> 0, removed |-> {}, dropped |-> {}]

\* the response of a handler: HTTP status, whether the Generation Client
\* was invoked, and the collection returned in data (<<>> when none); raw is
\* what the Generation Client returned to the handler (<<>> when nothing)
Resp(op, s, parent, status, invoked, data) ==
    [op |-> op, session |-> s, parent |-> parent, status |-> status,
     invoked |-> invoked, data |-> data, overlapped |-> FALSE, prior |-> NoPrior,
     raw |-> <<>>]

InitStore ==
    /\ learning_paths = EmptyMap
    /\ tocs = EmptyMap
    /\ topic_modules = EmptyMap
    /\ module_concepts = EmptyMap
    /\ user_sessions = EmptyMap
    /\ current_selections = EmptyMap

Init ==
    /\ InitStore
    /\ running = EmptyMap
    /\ queued = EmptyMap
    /\ client_calls = EmptyMap
    /\ last = Resp("none", None, None, 200, FALSE, <<>>)

\* a variant in which a handler waiting for the Generation Client yields the
\* event loop to the other handlers
LoopFree_yielding == TRUE

\* the handlers are coroutines of one event loop and contain no await: a
\* handler that has started runs to its return before another one starts
LoopFree == DOMAIN running = {}

\* ------------------------------------------------- Generation Client calls
\* the parents whose children are stored: (session, generating route, parent id)
StoredParents ==
    UNION {{<<s, "generate_modules", t>> : t \in DictKeys(topic_modules[s])}
           : s \in DOMAIN topic_modules}
    \cup UNION {{<<s, "generate_concepts", m>> : m \in DictKeys(module_concepts[s])}
                : s \in DOMAIN module_concepts}

CallsOf(k) == IF k \in DOMAIN client_calls THEN client_calls[k] ELSE 0

\* client_calls counts, for every parent whose children are stored, the calls
\* of the Generation Client made for that parent since its children were last
\* absent from the store
TrackCalls ==
    client_calls' =
        [k \in StoredParents' |->
            CallsOf(k) + (IF last'.invoked /\ k = <<last'.session, last'.op, last'.parent>>
                          THEN 1 ELSE 0)]

\* ----------------------------------------------------------- store reads
get_toc(s) == IF s \in DOMAIN tocs THEN <<tocs[s]>> ELSE <<>>

get_learning_path(s) == IF s \in DOMAIN learning_paths THEN <<learning_paths[s]>> ELSE <<>>

get_all_session_modules(s) == IF s \in DOMAIN topic_modules THEN topic_modules[s] ELSE <<>>

get_all_session_concepts(s) == IF s \in DOMAIN module_concepts THEN module_concepts[s] ELSE <<>>

get_topic_modules(s, t) ==
    IF DictHas(get_all_session_modules(s), t)
    THEN <<DictGet(get_all_session_modules(s), t)>> ELSE <<>>

get_module_concepts(s, m) ==
    IF DictHas(get_all_session_concepts(s), m)
    THEN <<DictGet(get_all_session_concepts(s), m)>> ELSE <<>>

get_current_selection(s) ==
    IF s \in DOMAIN current_selections THEN current_selections[s]
    ELSE [current_topic_id |-> None, current_module_id |-> None,
          current_concept_id |-> None]

\* all modules of a session in scan order: topics in insertion order, each
\* topic's modules in list order
RECURSIVE AllModules(_)
AllModules(d) ==
    IF d = <<>> THEN <<>> ELSE Head(d).v.modules \o AllModules(Tail(d))

get_module_data(s, m) ==
    LET hits == SelectSeq(AllModules(get_all_session_modules(s)),
                          LAMBDA mod : mod.id = m)
    IN  IF hits = <<>> THEN <<>> ELSE <<Head(hits)>>

\* ------------------------------------------------------------ selections
toc_topic_ids(toc) == {toc.topics[i].id : i \in DOMAIN toc.topics}

RECURSIVE SumHours(_)
SumHours(topics) ==
    IF topics = <<>> THEN 0
    ELSE Head(topics).estimated_hours + SumHours(Tail(topics))

\* the topics of the TOC whose id is selected, in TOC order, summed
selected_hours(toc, ids) ==
    SumHours(SelectSeq(toc.topics, LAMBDA tp : tp.id \in SeqToSet(ids)))

Cursor(t, m, c) ==
    [current_topic_id |-> t, current_module_id |-> m, current_concept_id |-> c]

\* ------------------------------------------------------ request inputs
Sessions == {"s1"}

Users == {"u1"}

T1 == [id |-> "t1", estimated_hours |-> 3]

T2 == [id |-> "t2", estimated_hours |-> 4]

Toc(domain, topics) == [domain |-> domain, topics |-> topics]

\* the tables of contents the TOC generator delivers
TocInputs == {Toc("data_science", <<T1, T2>>), Toc("data_science", <<T2>>)}

\* topic ids a request may name: those of the TOCs and one of no TOC
RequestTopicIds == {"t1", "t2", "tx"}

SelInputs == SeqsUpTo(RequestTopicIds, MaxSel)

\* ------------------------------------------------------------ store_toc
StoreTOC(s, toc) ==
    /\ LoopFree
    /\ tocs' = MapSet(tocs, s, toc)
    /\ UNCHANGED <<learning_paths, topic_modules, module_concepts,
                   user_sessions, current_selections, running, queued>>
    /\ last' = Resp("store_toc", s, None, 200, FALSE, <<>>)
    /\ TrackCalls

\* ------------------------------------------------ POST /api/toc/generate
\* The handler has one except clause, `except Exception`, which also catches
\* the HTTPException(400) it raises for an unsupported domain.  s is the
\* uuid4 drawn for the session; out is <<toc>>, or <<>> when the TOC
\* generator raises.
GenerateTOC(domain, s, out) ==
    /\ LoopFree
    /\ IF domain # "data_science"
       THEN /\ UNCHANGED store
            /\ last' = Resp("generate_toc", None, domain, 500, FALSE, <<>>)
       ELSE IF out = <<>>
       THEN /\ UNCHANGED store
            /\ last' = Resp("generate_toc", None, domain, 500, TRUE, <<>>)
       ELSE /\ s \notin DOMAIN tocs
            /\ tocs' = MapSet(tocs, s, out[1])
            /\ UNCHANGED <<learning_paths, topic_modules, module_concepts,
                           user_sessions, current_selections>>
            /\ last' = Resp("generate_toc", s, domain, 200, TRUE, out)
    /\ UNCHANGED <<running, queued>>
    /\ TrackCalls

\* ------------------------------------------------- create_learning_path
\* the ValueError create_learning_path raises, or "ok"
create_error(s, ids) ==
    IF get_toc(s) = <<>> THEN "no_toc"
    ELSE IF SeqToSet(ids) \ toc_topic_ids(tocs[s]) # {} THEN "invalid_topics"
    ELSE "ok"

new_learning_path(u, s, ids) ==
    [user_id |-> u, session_id |-> s, selected_topics |-> ids,
     estimated_total_hours |-> selected_hours(tocs[s], ids)]

\* the cursor after create_learning_path
create_selection(s, ids) ==
    IF ids # <<>>
    THEN MapSet(current_selections, s, Cursor(ids[1], None, None))
    ELSE current_selections

track_user_session(u, s) ==
    MapSet(user_sessions, u,
           Append(IF u \in DOMAIN user_sessions THEN user_sessions[u] ELSE <<>>, s))

\* a variant that initializes the session's Module map only when it has none
initial_modules_setdefault(s) ==
    IF s \in DOMAIN topic_modules THEN topic_modules ELSE MapSet(topic_modules, s, <<>>)

\* the session's Module map is initialized to an empty map
initial_modules(s) == MapSet(topic_modules, s, <<>>)

\* what create_learning_path discards: the topics that had modules and the
\* modules that had concepts
create_prior(s) ==
    [NoPrior EXCEPT !.removed = DictKeys(get_all_session_modules(s)),
                    !.dropped = DictKeys(get_all_session_concepts(s))]

\* the route: a ValueError of the service becomes a 400
CreateLearningPath(u, s, ids) ==
    /\ LoopFree
    /\ IF create_error(s, ids) # "ok"
       THEN /\ UNCHANGED store
            /\ last' = Resp("create_learning_path", s, None, 400, FALSE, <<>>)
       ELSE /\ Len(IF u \in DOMAIN user_sessions THEN user_sessions[u] ELSE <<>>)
                 < MaxUserSessions
            /\ learning_paths' = MapSet(learning_paths, s, new_learning_path(u, s, ids))
            /\ topic_modules' = initial_modules(s)
            /\ module_concepts' = MapSet(module_concepts, s, <<>>)
            /\ current_selections' = create_selection(s, ids)
            /\ user_sessions' = track_user_session(u, s)
            /\ UNCHANGED tocs
            /\ last' = [Resp("create_learning_path", s, None, 200, FALSE, <<>>)
                          EXCEPT !.prior = create_prior(s)]
    /\ UNCHANGED <<running, queued>>
    /\ TrackCalls

\* ------------------------------ GET /api/toc/user/{u}/learning-paths
\* the paths of the sessions in the user's list, in list order
get_user_learning_paths(u) ==
    LET session_ids == IF u \in DOMAIN user_sessions THEN user_sessions[u] ELSE <<>>
        present == SelectSeq(session_ids, LAMBDA sid : sid \in DOMAIN learning_paths)
    IN  [i \in DOMAIN present |-> learning_paths[present[i]]]

GetUserLearningPaths(u) ==
    /\ LoopFree
    /\ UNCHANGED <<store, running, queued>>
    /\ last' = Resp("get_user_learning_paths", None, u, 200, FALSE,
                    get_user_learning_paths(u))
    /\ TrackCalls

\* ------------------------------------------------- update_learning_path
update_error(s, ids) ==
    IF get_learning_path(s) = <<>> THEN "no_path"
    ELSE IF get_toc(s) = <<>> THEN "no_toc"
    ELSE IF SeqToSet(ids) \ toc_topic_ids(tocs[s]) # {} THEN "invalid_topics"
    ELSE "ok"

removed_topics(s, ids) == SeqToSet(learning_paths[s].selected_topics) \ SeqToSet(ids)

\* ids of the modules stored under the removed topics
removed_module_ids(s, removed) ==
    LET gone == AllModules(SelectSeq(topic_modules[s], LAMBDA e : e.k \in removed))
    IN  {gone[i].id : i \in DOMAIN gone}

\* a variant that deletes no concept collection
cascade_concepts_kept(s, removed) == module_concepts

\* module_concepts after the concepts of the removed topics' modules are deleted
cascade_concepts(s, removed) ==
    IF s \in DOMAIN topic_modules /\ s \in DOMAIN module_concepts
    THEN MapSet(module_concepts, s,
                DictDelAll(module_concepts[s], removed_module_ids(s, removed)))
    ELSE module_concepts

\* a variant that deletes the removed topics' modules in every session
cascade_modules_every_session(s, removed) ==
    [x \in DOMAIN topic_modules |-> DictDelAll(topic_modules[x], removed)]

\* topic_modules after the removed topics' module collections are deleted
cascade_modules(s, removed) ==
    IF s \in DOMAIN topic_modules
    THEN MapSet(topic_modules, s, DictDelAll(topic_modules[s], removed))
    ELSE topic_modules

\* a variant that replaces the ids and keeps the old total
updated_learning_path_stale_total(s, ids) ==
    [learning_paths[s] EXCEPT !.selected_topics = ids]

updated_learning_path(s, ids) ==
    [learning_paths[s] EXCEPT !.selected_topics = ids,
                              !.estimated_total_hours = selected_hours(tocs[s], ids)]

\* a variant that moves the cursor to the first id on every update
update_selection_always_first(s, ids) ==
    IF ids # <<>>
    THEN MapSet(current_selections, s, Cursor(ids[1], None, None))
    ELSE MapDel(current_selections, s)

\* the cursor after update_learning_path
update_selection(s, ids) ==
    IF get_current_selection(s).current_topic_id \notin SeqToSet(ids)
    THEN IF ids # <<>>
         THEN MapSet(current_selections, s, Cursor(ids[1], None, None))
         ELSE MapDel(current_selections, s)
    ELSE current_selections

update_prior(s, ids) ==
    [topic |-> get_current_selection(s).current_topic_id,
     hours |-> learning_paths[s].estimated_total_hours,
     removed |-> removed_topics(s, ids) \cap DictKeys(get_all_session_modules(s)),
     dropped |-> IF s \in DOMAIN topic_modules
                 THEN removed_module_ids(s, removed_topics(s, ids))
                      \cap DictKeys(get_all_session_concepts(s))
                 ELSE {}]

\* a variant that validates the ids after the cascade and the cursor update
UpdateLearningPath_validate_late(s, ids) ==
    /\ LoopFree
    /\ IF get_learning_path(s) = <<>> \/ get_toc(s) = <<>>
       THEN /\ UNCHANGED store
            /\ last' = Resp("update_learning_path", s, None, 400, FALSE, <<>>)
       ELSE /\ module_concepts' = cascade_concepts(s, removed_topics(s, ids))
            /\ topic_modules' = cascade_modules(s, removed_topics(s, ids))
            /\ current_selections' = update_selection(s, ids)
            /\ UNCHANGED <<tocs, user_sessions>>
            /\ IF update_error(s, ids) # "ok"
               THEN /\ UNCHANGED learning_paths
                    /\ last' = Resp("update_learning_path", s, None, 400, FALSE, <<>>)
               ELSE /\ learning_paths' =
                          MapSet(learning_paths, s, updated_learning_path(s, ids))
                    /\ last' = [Resp("update_learning_path", s, None, 200, FALSE, <<>>)
                                  EXCEPT !.prior = update_prior(s, ids)]
    /\ UNCHANGED <<running, queued>>
    /\ TrackCalls

UpdateLearningPath(s, ids) ==
    /\ LoopFree
    /\ IF update_error(s, ids) # "ok"
       THEN /\ UNCHANGED store
            /\ last' = Resp("update_learning_path", s, None, 400, FALSE, <<>>)
       ELSE /\ module_concepts' = cascade_concepts(s, removed_topics(s, ids))
            /\ topic_modules' = cascade_modules(s, removed_topics(s, ids))
            /\ learning_paths' = MapSet(learning_paths, s, updated_learning_path(s, ids))
            /\ current_selections' = update_selection(s, ids)
            /\ UNCHANGED <<tocs, user_sessions>>
            /\ last' = [Resp("update_learning_path", s, None, 200, FALSE, <<>>)
                          EXCEPT !.prior = update_prior(s, ids)]
    /\ UNCHANGED <<running, queued>>
    /\ TrackCalls

\* --------------------------------------------- update_current_selection
\* the status of the select route for topic t and module m (None: no module)
select_status(s, t, m) ==
    IF get_learning_path(s) = <<>> THEN 404
    ELSE IF t \notin SeqToSet(learning_paths[s].selected_topics) THEN 400
    ELSE IF m \in {None, ""} THEN 200
    ELSE IF get_topic_modules(s, t) = <<>> THEN 404
    ELSE IF \A i \in DOMAIN get_topic_modules(s, t)[1].modules :
                get_topic_modules(s, t)[1].modules[i].id # m THEN 400
    ELSE 200

\* a variant that takes the module id for the concept id as well
set_current_selection_concept(s, t, m, c) == MapSet(current_selections, s, Cursor(t, m, m))

set_current_selection(s, t, m, c) == MapSet(current_selections, s, Cursor(t, m, c))

UpdateCurrentSelection(s, t, m) ==
    /\ LoopFree
    /\ IF select_status(s, t, m) # 200
       THEN UNCHANGED current_selections
       ELSE current_selections' = set_current_selection(s, t, m, None)
    /\ UNCHANGED <<learning_paths, tocs, topic_modules, module_concepts,
                   user_sessions, running, queued>>
    /\ last' = Resp("update_current_selection", s, t,
                    select_status(s, t, m), FALSE, <<>>)
    /\ TrackCalls

\* ---------------------------------------------------- Generation Client
\* What generate_structured returns is <<object>>; <<>> is the exception it
\* raises when the backend or the schema validation fails on every attempt.
\* The parent id and the total of a raw object are the backend's own.
RawModule(id, hours, order) ==
    [id |-> id, topic_id |-> "raw_topic", estimated_hours |-> hours, order |-> order]

RawTopicWithModules(mods) ==
    [topic_id |-> "raw_topic", modules |-> mods, total_estimated_hours |-> 99]

RawModuleOutputs(ids, hours, orders, lens) ==
    {RawTopicWithModules(mods) :
        mods \in UNION {[1..k -> {RawModule(i, h, o) : i \in ids, h \in hours, o \in orders}]
                        : k \in lens}}

RawConcept(id, minutes, order) ==
    [id |-> id, module_id |-> "raw_module", estimated_minutes |-> minutes,
     content_blocks |-> <<>>, notes_summary |-> None, order |-> order,
     status |-> "not_started"]

RawModuleWithConcepts(cs) ==
    [module_id |-> "raw_module", topic_id |-> "raw_topic", concepts |-> cs,
     total_estimated_minutes |-> 99, current_concept_id |-> None]

RawConceptOutputs(ids, minutes, orders, lens) ==
    {RawModuleWithConcepts(cs) :
        cs \in UNION {[1..k -> {RawConcept(i, mi, o) : i \in ids, mi \in minutes, o \in orders}]
                      : k \in lens}}

\* -------------------------------------------------------- Node Normalizer
RECURSIVE SumField(_, _)
SumField(q, f) == IF q = <<>> THEN 0 ELSE Head(q)[f] + SumField(Tail(q), f)

\* a variant that keeps the id of the raw output
module_id_for_raw(raw_id, topic_id, i) == raw_id

module_id_for(raw_id, topic_id, i) ==
    IF raw_id = "" THEN "mod_" \o topic_id \o "_" \o ToString(i) ELSE raw_id

module_order(raw_order, i) == i

\* a variant that stores the hours of the raw output
module_hours_unclamped(h) == h

module_hours(h) ==
    IF h <= 0 \/ h > MaxModuleHours THEN DefaultModuleHours ELSE h

\* a variant that keeps the total of the raw output
post_process_modules_raw_total(raw, topic_id) ==
    LET mods == [i \in DOMAIN raw.modules |->
                   [id |-> module_id_for(raw.modules[i].id, topic_id, i),
                    topic_id |-> topic_id,
                    estimated_hours |-> module_hours(raw.modules[i].estimated_hours),
                    order |-> module_order(raw.modules[i].order, i)]]
    IN  [topic_id |-> topic_id, modules |-> mods,
         total_estimated_hours |-> raw.total_estimated_hours]

post_process_modules(raw, topic_id) ==
    LET mods == [i \in DOMAIN raw.modules |->
                   [id |-> module_id_for(raw.modules[i].id, topic_id, i),
                    topic_id |-> topic_id,
                    estimated_hours |-> module_hours(raw.modules[i].estimated_hours),
                    order |-> module_order(raw.modules[i].order, i)]]
    IN  [topic_id |-> topic_id, modules |-> mods,
         total_estimated_hours |-> SumField(mods, "estimated_hours")]

concept_id_for(raw_id, module_id, i) ==
    IF raw_id = "" THEN "concept_" \o module_id \o "_" \o ToString(i) ELSE raw_id

\* a variant that keeps the order of the raw output
concept_order_raw(raw_order, i) == raw_order

concept_order(raw_order, i) == i

concept_minutes(mi) ==
    IF mi <= MinConceptMinutes \/ mi > MaxConceptMinutes
    THEN DefaultConceptMinutes ELSE mi

\* a variant that leaves each concept the module id of the raw output
post_process_concepts_raw_parent(raw, module_data) ==
    LET cs == [i \in DOMAIN raw.concepts |->
                 [raw.concepts[i] EXCEPT
                    !.id = concept_id_for(raw.concepts[i].id, module_data.id, i),
                    !.order = concept_order(raw.concepts[i].order, i),
                    !.estimated_minutes = concept_minutes(raw.concepts[i].estimated_minutes)]]
    IN  [module_id |-> module_data.id, topic_id |-> module_data.topic_id,
         concepts |-> cs,
         total_estimated_minutes |-> SumField(cs, "estimated_minutes"),
         current_concept_id |-> IF cs # <<>> THEN cs[1].id ELSE raw.current_concept_id]

post_process_concepts(raw, module_data) ==
    LET cs == [i \in DOMAIN raw.concepts |->
                 [raw.concepts[i] EXCEPT
                    !.id = concept_id_for(raw.concepts[i].id, module_data.id, i),
                    !.module_id = module_data.id,
                    !.order = concept_order(raw.concepts[i].order, i),
                    !.estimated_minutes = concept_minutes(raw.concepts[i].estimated_minutes)]]
    IN  [module_id |-> module_data.id, topic_id |-> module_data.topic_id,
         concepts |-> cs,
         total_estimated_minutes |-> SumField(cs, "estimated_minutes"),
         current_concept_id |-> IF cs # <<>> THEN cs[1].id ELSE raw.current_concept_id]

\* ------------------------------------------------------- store writes
\* a variant that writes the collection without its last module
store_topic_modules_partial(s, twm) ==
    MapSet(topic_modules, s,
           DictSet(get_all_session_modules(s), twm.topic_id,
                   [twm EXCEPT !.modules = SubSeq(@, 1, Len(@) - 1)]))

store_topic_modules(s, twm) ==
    MapSet(topic_modules, s, DictSet(get_all_session_modules(s), twm.topic_id, twm))

store_module_concepts(s, mwc) ==
    MapSet(module_concepts, s, DictSet(get_all_session_concepts(s), mwc.module_id, mwc))

\* ----------------------------------------------- POST /api/modules/generate
\* what the handler does before it would call the generator
\* a variant that never finds the stored modules
modules_cached_never(s, t) == FALSE

modules_cached(s, t) == get_topic_modules(s, t) # <<>>

generate_modules_outcome(s, t) ==
    IF get_learning_path(s) = <<>> THEN "not_found"
    ELSE IF get_toc(s) = <<>> THEN "not_found"
    ELSE IF t \notin SeqToSet(learning_paths[s].selected_topics) THEN "bad_request"
    ELSE IF t \notin toc_topic_ids(tocs[s]) THEN "not_found"
    ELSE IF modules_cached(s, t) THEN "cached"
    ELSE IF tocs[s].domain # "data_science" THEN "bad_request"
    ELSE "generate"

OutcomeStatus(o) ==
    CASE o = "not_found" -> 404
      [] o = "bad_request" -> 400
      [] OTHER -> 200

modules_response(s, t) ==
    Resp("generate_modules", s, t,
         OutcomeStatus(generate_modules_outcome(s, t)), FALSE,
         IF generate_modules_outcome(s, t) = "cached"
         THEN get_topic_modules(s, t) ELSE <<>>)

\* the handler returns without calling the generator
RespondModules(s, t) ==
    /\ UNCHANGED store
    /\ last' = modules_response(s, t)
    /\ TrackCalls

\* a variant that stores an empty collection when the generator has failed
CompleteModules_partial(s, t, out) ==
    /\ CallsOf(<<s, "generate_modules", t>>) < MaxCalls
    /\ topic_modules' =
          store_topic_modules(s, IF out = <<>>
                                 THEN [topic_id |-> t, modules |-> <<>>,
                                       total_estimated_hours |-> 0]
                                 ELSE post_process_modules(out[1], t))
    /\ UNCHANGED <<learning_paths, tocs, module_concepts, user_sessions,
                   current_selections>>
    /\ last' = IF out = <<>>
               THEN Resp("generate_modules", s, t, 500, TRUE, <<>>)
               ELSE [Resp("generate_modules", s, t, 200, TRUE,
                          <<post_process_modules(out[1], t)>>) EXCEPT !.raw = out]
    /\ TrackCalls

\* the generator call has returned out: post-process and store, or 500
CompleteModules(s, t, out) ==
    /\ CallsOf(<<s, "generate_modules", t>>) < MaxCalls
    /\ IF out = <<>>
       THEN /\ UNCHANGED store
            /\ last' = Resp("generate_modules", s, t, 500, TRUE, <<>>)
       ELSE /\ topic_modules' = store_topic_modules(s, post_process_modules(out[1], t))
            /\ UNCHANGED <<learning_paths, tocs, module_concepts, user_sessions,
                           current_selections>>
            /\ last' = [Resp("generate_modules", s, t, 200, TRUE,
                             <<post_process_modules(out[1], t)>>) EXCEPT !.raw = out]
    /\ TrackCalls

GenerateModules(s, t, out) ==
    /\ LoopFree
    /\ IF generate_modules_outcome(s, t) = "generate"
       THEN CompleteModules(s, t, out)
       ELSE RespondModules(s, t)
    /\ UNCHANGED <<running, queued>>

\* ---------------------------------------------- POST /api/concepts/generate
concepts_cached(s, m) == get_module_concepts(s, m) # <<>>

generate_concepts_outcome(s, m) ==
    IF get_learning_path(s) = <<>> THEN "not_found"
    ELSE IF get_module_data(s, m) = <<>> THEN "not_found"
    ELSE IF concepts_cached(s, m) THEN "cached"
    ELSE IF tocs[s].domain # "data_science" THEN "bad_request"
    ELSE "generate"

concepts_response(s, m) ==
    Resp("generate_concepts", s, m,
         OutcomeStatus(generate_concepts_outcome(s, m)), FALSE,
         IF generate_concepts_outcome(s, m) = "cached"
         THEN get_module_concepts(s, m) ELSE <<>>)

RespondConcepts(s, m) ==
    /\ UNCHANGED store
    /\ last' = concepts_response(s, m)
    /\ TrackCalls

\* module_data is what get_module_data returned before the generator call
CompleteConcepts(s, m, module_data, out) ==
    /\ CallsOf(<<s, "generate_concepts", m>>) < MaxCalls
    /\ IF out = <<>>
       THEN /\ UNCHANGED store
            /\ last' = Resp("generate_concepts", s, m, 500, TRUE, <<>>)
       ELSE /\ module_concepts' =
                   store_module_concepts(s, post_process_concepts(out[1], module_data))
            /\ UNCHANGED <<learning_paths, tocs, topic_modules, user_sessions,
                           current_selections>>
            /\ last' = [Resp("generate_concepts", s, m, 200, TRUE,
                             <<post_process_concepts(out[1], module_data)>>)
                          EXCEPT !.raw = out]
    /\ TrackCalls

GenerateConcepts(s, m, out) ==
    /\ LoopFree
    /\ IF generate_concepts_outcome(s, m) = "generate"
       THEN CompleteConcepts(s, m, get_module_data(s, m)[1], out)
       ELSE RespondConcepts(s, m)
    /\ UNCHANGED <<running, queued>>

\* ------------------------------------------------ requests on the event loop
\* A generation request waits in queued until the event loop starts its
\* handler; a handler that has called the Generation Client is in running
\* until the call returns.  overlapped records that a request for the same
\* parent was waiting or running when this one arrived; preceded counts (up
\* to MaxCalls) the requests for the same parent that have generated and
\* stored their result while this one was waiting.
RequestKey(q) == <<q.session, q.op, q.parent>>

Pending == {RequestKey(queued[r]) : r \in DOMAIN queued}
           \cup {RequestKey(running[r]) : r \in DOMAIN running}

Arrive(r, op, s, parent) ==
    /\ r \notin DOMAIN queued \cup DOMAIN running
    /\ queued' = MapSet(queued, r, [op |-> op, session |-> s, parent |-> parent,
                                    overlapped |-> <<s, op, parent>> \in Pending,
                                    preceded |-> 0])
    /\ UNCHANGED <<store, running, client_calls, last>>

\* the handler up to the call of the generator: it answers at once, or calls
\* the generator with the module data it has read
generation_outcome(q) ==
    IF q.op = "generate_modules" THEN generate_modules_outcome(q.session, q.parent)
    ELSE generate_concepts_outcome(q.session, q.parent)

Begin(r) ==
    /\ LoopFree
    /\ r \in DOMAIN queued
    /\ queued' = MapDel(queued, r)
    /\ IF generation_outcome(queued[r]) # "generate"
       THEN /\ UNCHANGED <<store, running>>
            /\ last' = [(IF queued[r].op = "generate_modules"
                          THEN modules_response(queued[r].session, queued[r].parent)
                          ELSE concepts_response(queued[r].session, queued[r].parent))
                            EXCEPT !.overlapped = queued[r].overlapped]
            /\ TrackCalls
       ELSE /\ running' = MapSet(running, r,
                   [op |-> queued[r].op, session |-> queued[r].session,
                    parent |-> queued[r].parent,
                    module_data |-> get_module_data(queued[r].session, queued[r].parent)])
            /\ UNCHANGED <<store, client_calls, last>>

\* the generator call of a running handler returns out
End(r, out) ==
    /\ r \in DOMAIN running
    /\ running' = MapDel(running, r)
    /\ queued' = [w \in DOMAIN queued |->
                    IF out # <<>> /\ RequestKey(queued[w]) = RequestKey(running[r])
                       /\ queued[w].preceded < MaxCalls
                    THEN [queued[w] EXCEPT !.preceded = @ + 1]
                    ELSE queued[w]]
    /\ IF running[r].op = "generate_modules"
       THEN /\ out \in {<<>>} \cup {<<x>> : x \in RawModuleOutputs({""}, {1, 2}, {1}, {1})}
            /\ CompleteModules(running[r].session, running[r].parent, out)
       ELSE /\ out \in {<<>>} \cup {<<x>> : x \in RawConceptOutputs({""}, {10}, {1}, {1})}
            /\ CompleteConcepts(running[r].session, running[r].parent,
                                running[r].module_data[1], out)

\* ------------------------------------------------ Content Block Splitter
\* A text is a sequence of characters, "\n" ends a line.
Whitespace == {" ", "\n"}

RECURSIVE LStrip(_)
LStrip(q) == IF q # <<>> /\ Head(q) \in Whitespace THEN LStrip(Tail(q)) ELSE q

RECURSIVE RStrip(_)
RStrip(q) ==
    IF q # <<>> /\ q[Len(q)] \in Whitespace THEN RStrip(SubSeq(q, 1, Len(q) - 1)) ELSE q

strip(q) == RStrip(LStrip(q))

startswith(q, prefix) ==
    Len(q) >= Len(prefix) /\ SubSeq(q, 1, Len(prefix)) = prefix

\* str.split('\n'): a text without "\n" is one line, the empty text included
RECURSIVE split_lines(_, _)
split_lines(q, line) ==
    IF q = <<>> THEN <<line>>
    ELSE IF Head(q) = "\n" THEN <<line>> \o split_lines(Tail(q), <<>>)
    ELSE split_lines(Tail(q), Append(line, Head(q)))

\* a variant that numbers the blocks from 0
ContentBlock_from_zero(n, content, minutes) ==
    [id |-> "block_" \o ToString(n - 1), type |-> "content", content |-> content,
     order |-> n - 1, estimated_minutes |-> minutes]

ContentBlock(n, content, minutes) ==
    [id |-> "block_" \o ToString(n), type |-> "content", content |-> content,
     order |-> n, estimated_minutes |-> minutes]

\* a variant that tests the line as it is
is_heading_unstripped(line) == startswith(line, <<"#", "#", " ">>)

is_heading(line) == startswith(strip(line), <<"#", "#", " ">>)

\* the loop over the lines and the final block
RECURSIVE parse_lines(_, _, _)
parse_lines(lines, blocks, current_block) ==
    IF lines = <<>>
    THEN IF strip(current_block) # <<>>
         THEN Append(blocks, ContentBlock(Len(blocks) + 1, strip(current_block), 2))
         ELSE blocks
    ELSE IF is_heading(Head(lines)) /\ current_block # <<>>
    THEN parse_lines(Tail(lines),
                     IF strip(current_block) # <<>>
                     THEN Append(blocks, ContentBlock(Len(blocks) + 1,
                                                      strip(current_block), 2))
                     ELSE blocks,
                     Append(Head(lines), "\n"))
    ELSE parse_lines(Tail(lines), blocks, current_block \o Append(Head(lines), "\n"))

parse_content_into_blocks(content_text) ==
    LET blocks == parse_lines(split_lines(content_text, <<>>), <<>>, <<>>)
    IN  IF blocks = <<>>
        THEN <<ContentBlock(1, strip(content_text), 5)>>
        ELSE blocks

\* the text the backend has returned for a concept, before it is split
ContentText(content_text) ==
    [Resp("generate", None, None, 200, TRUE, <<>>) EXCEPT !.raw = <<content_text>>]

\* the splitter applied to the text the backend has returned
Split ==
    /\ last.op = "generate"
    /\ last' = [last EXCEPT !.op = "parse_content_into_blocks",
                            !.data = parse_content_into_blocks(last.raw[1])]
    /\ UNCHANGED <<store, running, queued, client_calls>>

\* ------------------------------------------------- concept reads and writes
\* the first concept with the id in scan order: modules in insertion order,
\* each module's concepts in list order; <<j, i>> or <<>>
find_concept(s, c) ==
    LET d == get_all_session_concepts(s)
        hits == {p \in {<<j, i>> : j \in DOMAIN d, i \in 1..MaxConcepts} :
                    /\ p[2] \in DOMAIN d[p[1]].v.concepts
                    /\ d[p[1]].v.concepts[p[2]].id = c}
    IN  IF hits = {} THEN <<>>
        ELSE CHOOSE p \in hits :
                \A q \in hits : p[1] < q[1] \/ (p[1] = q[1] /\ p[2] <= q[2])

get_concept_data(s, c) ==
    IF find_concept(s, c) = <<>> THEN <<>>
    ELSE <<module_concepts[s][find_concept(s, c)[1]].v.concepts[find_concept(s, c)[2]]>>

\* a variant that replaces every concept of id c in the session
put_concept_every(s, c, concept) ==
    IF find_concept(s, c) = <<>> THEN module_concepts
    ELSE [module_concepts EXCEPT
             ![s] = [j \in DOMAIN module_concepts[s] |->
                       [module_concepts[s][j] EXCEPT
                          !.v.concepts = [i \in DOMAIN @ |->
                                            IF @[i].id = c THEN concept ELSE @[i]]]]]

\* module_concepts with the first concept of id c replaced by concept
put_concept(s, c, concept) ==
    IF find_concept(s, c) = <<>> THEN module_concepts
    ELSE [module_concepts EXCEPT
             ![s][find_concept(s, c)[1]].v.concepts[find_concept(s, c)[2]] = concept]

store_concept_content(s, concept) == put_concept(s, concept.id, concept)

store_concept_notes(s, c, notes_content) ==
    IF get_concept_data(s, c) = <<>> THEN module_concepts
    ELSE put_concept(s, c, [get_concept_data(s, c)[1] EXCEPT !.notes_summary = notes_content])

update_concept_progress(s, c, status) ==
    IF get_concept_data(s, c) = <<>> THEN module_concepts
    ELSE put_concept(s, c, [get_concept_data(s, c)[1] EXCEPT !.status = status])

ConceptStatus == {"not_started", "in_progress", "completed"}

\* ----------------------------------------------- POST /api/concepts/content
content_cached(concept_data) == concept_data.content_blocks # <<>>

generate_content_outcome(s, c) ==
    IF get_learning_path(s) = <<>> THEN "not_found"
    ELSE IF get_concept_data(s, c) = <<>> THEN "not_found"
    ELSE IF content_cached(get_concept_data(s, c)[1]) THEN "cached"
    ELSE IF tocs[s].domain # "data_science" THEN "bad_request"
    ELSE "generate"

\* the concept generate_concept_content returns for the text of the backend
concept_with_content(concept_data, content_text) ==
    [concept_data EXCEPT !.content_blocks = parse_content_into_blocks(content_text)]

\* out is <<text>>, or <<>> when the backend failed on every attempt
GenerateConceptContent(s, c, out) ==
    /\ LoopFree
    /\ IF generate_content_outcome(s, c) # "generate"
       THEN /\ UNCHANGED store
            /\ last' = Resp("generate_concept_content", s, c,
                            OutcomeStatus(generate_content_outcome(s, c)), FALSE,
                            IF generate_content_outcome(s, c) = "cached"
                            THEN get_concept_data(s, c) ELSE <<>>)
       ELSE IF out = <<>>
       THEN /\ UNCHANGED store
            /\ last' = Resp("generate_concept_content", s, c, 500, TRUE, <<>>)
       ELSE /\ module_concepts' =
                   store_concept_content(s, concept_with_content(get_concept_data(s, c)[1],
                                                                 out[1]))
            /\ UNCHANGED <<learning_paths, tocs, topic_modules, user_sessions,
                           current_selections>>
            /\ last' = Resp("generate_concept_content", s, c, 200, TRUE,
                            <<concept_with_content(get_concept_data(s, c)[1], out[1])>>)
    /\ UNCHANGED <<running, queued>>
    /\ TrackCalls

\* ------------------------------------------------- POST /api/concepts/notes
notes_cached(concept_data) == concept_data.notes_summary \notin {None, ""}

generate_notes_outcome(s, c) ==
    IF get_learning_path(s) = <<>> THEN "not_found"
    ELSE IF get_concept_data(s, c) = <<>> THEN "not_found"
    ELSE IF notes_cached(get_concept_data(s, c)[1]) THEN "cached"
    ELSE IF tocs[s].domain # "data_science" THEN "bad_request"
    ELSE "generate"

GenerateConceptNotes(s, c, out) ==
    /\ LoopFree
    /\ IF generate_notes_outcome(s, c) # "generate"
       THEN /\ UNCHANGED store
            /\ last' = Resp("generate_concept_notes", s, c,
                            OutcomeStatus(generate_notes_outcome(s, c)), FALSE,
                            IF generate_notes_outcome(s, c) = "cached"
                            THEN <<get_concept_data(s, c)[1].notes_summary>> ELSE <<>>)
       ELSE IF out = <<>>
       THEN /\ UNCHANGED store
            /\ last' = Resp("generate_concept_notes", s, c, 500, TRUE, <<>>)
       ELSE /\ module_concepts' = store_concept_notes(s, c, out[1])
            /\ UNCHANGED <<learning_paths, tocs, topic_modules, user_sessions,
                           current_selections>>
            /\ last' = Resp("generate_concept_notes", s, c, 200, TRUE, out)
    /\ UNCHANGED <<running, queued>>
    /\ TrackCalls

\* ------------------- POST /api/concepts/session/{s}/concept/{c}/progress
\* a variant that stores the status without validating it
UpdateConceptProgress_unvalidated(s, c, status) ==
    /\ LoopFree
    /\ module_concepts' = update_concept_progress(s, c, status)
    /\ UNCHANGED <<learning_paths, tocs, topic_modules, user_sessions,
                   current_selections>>
    /\ last' = Resp("update_concept_progress", s, c, 200, FALSE, <<status>>)
    /\ UNCHANGED <<running, queued>>
    /\ TrackCalls

UpdateConceptProgress(s, c, status) ==
    /\ LoopFree
    /\ IF status \notin ConceptStatus
       THEN /\ UNCHANGED store
            /\ last' = Resp("update_concept_progress", s, c, 400, FALSE, <<>>)
       ELSE /\ module_concepts' = update_concept_progress(s, c, status)
            /\ UNCHANGED <<learning_paths, tocs, topic_modules, user_sessions,
                           current_selections>>
            /\ last' = Resp("update_concept_progress", s, c, 200, FALSE, <<status>>)
    /\ UNCHANGED <<running, queued>>
    /\ TrackCalls

\* ------------------------------- GET /api/concepts/session/{s}/navigation
concept_item(s, concept) ==
    [concept_id |-> concept.id, estimated_minutes |-> concept.estimated_minutes,
     order |-> concept.order, status |-> concept.status,
     is_current_concept |-> concept.id = get_current_selection(s).current_concept_id]

\* a variant that attaches the concepts of every module that has them
attached_concepts_eager(s, module_id) ==
    IF get_module_concepts(s, module_id) # <<>>
    THEN [i \in DOMAIN get_module_concepts(s, module_id)[1].concepts |->
             concept_item(s, get_module_concepts(s, module_id)[1].concepts[i])]
    ELSE <<>>

\* the concepts listed under a module: those of the current module only
attached_concepts(s, module_id) ==
    IF module_id = get_current_selection(s).current_module_id
       /\ get_module_concepts(s, module_id) # <<>>
    THEN [i \in DOMAIN get_module_concepts(s, module_id)[1].concepts |->
             concept_item(s, get_module_concepts(s, module_id)[1].concepts[i])]
    ELSE <<>>

module_item(s, module) ==
    [module_id |-> module.id, estimated_hours |-> module.estimated_hours,
     order |-> module.order,
     is_current_module |-> module.id = get_current_selection(s).current_module_id,
     concepts |-> attached_concepts(s, module.id),
     concepts_generated |-> get_module_concepts(s, module.id) # <<>>]

navigation_item(s, topic_id) ==
    [topic_id |-> topic_id,
     modules |-> IF get_topic_modules(s, topic_id) = <<>> THEN <<>>
                 ELSE [i \in DOMAIN get_topic_modules(s, topic_id)[1].modules |->
                          module_item(s, get_topic_modules(s, topic_id)[1].modules[i])],
     modules_generated |-> get_topic_modules(s, topic_id) # <<>>,
     is_current_topic |-> topic_id = get_current_selection(s).current_topic_id]

\* a variant that walks the topics of the TOC and keeps the selected ones
navigation_topics_toc_order(s) ==
    LET ids == [i \in DOMAIN tocs[s].topics |-> tocs[s].topics[i].id]
    IN  SelectSeq(ids, LAMBDA t : t \in SeqToSet(learning_paths[s].selected_topics))

\* the topic ids the loop makes an item for: the selected ids, in selection
\* order, that are found in the TOC
navigation_topics(s) ==
    IF get_toc(s) = <<>> THEN <<>>
    ELSE SelectSeq(learning_paths[s].selected_topics,
                   LAMBDA t : t \in toc_topic_ids(tocs[s]))

get_learning_path_with_concepts(s) ==
    IF get_learning_path(s) = <<>> THEN <<>>
    ELSE <<[navigation |-> [i \in DOMAIN navigation_topics(s) |->
                               navigation_item(s, navigation_topics(s)[i])],
            current_selection |-> get_current_selection(s),
            total_topics |-> Len(learning_paths[s].selected_topics),
            topics_with_modules |-> Len(get_all_session_modules(s)),
            modules_with_concepts |-> Len(get_all_session_concepts(s))]>>

GetNavigation(s) ==
    /\ LoopFree
    /\ UNCHANGED <<store, running, queued>>
    /\ last' = IF get_learning_path_with_concepts(s) = <<>>
               THEN Resp("get_concept_navigation", s, None, 404, FALSE, <<>>)
               ELSE Resp("get_concept_navigation", s, None, 200, FALSE,
                         get_learning_path_with_concepts(s))
    /\ TrackCalls

\* ------------------------------- GET /api/modules/session/{s}/navigation
\* the public methods of LearningPathService
LearningPathServiceMethods ==
    {"store_toc", "get_toc", "create_learning_path", "store_topic_modules",
     "get_topic_modules", "get_all_session_modules", "get_module_data",
     "store_module_concepts", "get_module_concepts", "get_concept_data",
     "store_concept_content", "store_concept_notes", "update_concept_progress",
     "set_current_selection", "get_current_selection",
     "get_learning_path_with_concepts", "get_learning_path",
     "get_user_learning_paths", "update_learning_path", "get_topic_details",
     "get_statistics"}

\* the handler calls learning_path_service.get_learning_path_with_modules; a
\* method the service does not have raises AttributeError at the call, which
\* the handler's except Exception turns into a 500
GetNavigationData(s) ==
    /\ LoopFree
    /\ UNCHANGED <<store, running, queued>>
    /\ last' = IF "get_learning_path_with_modules" \notin LearningPathServiceMethods
               THEN Resp("get_navigation_data", s, None, 500, FALSE, <<>>)
               ELSE IF get_learning_path_with_concepts(s) = <<>>
               THEN Resp("get_navigation_data", s, None, 404, FALSE, <<>>)
               ELSE Resp("get_navigation_data", s, None, 200, FALSE,
                         get_learning_path_with_concepts(s))
    /\ TrackCalls

\* ------------------------------------------- LLMService: one call, retried
\* A response of the text-generation service: its HTTP status and, for 200,
\* the message content: <<>> when the content is no JSON, <<value>> otherwise
\* (for generate the text itself).  A child of a JSON value may lack its id
\* (None).  last holds the call and the responses the service will give, then
\* what the generator made of them.
\* response_model(**data): the required id of every child is present
validates(op, data) ==
    IF op = "generate_modules"
    THEN \A i \in DOMAIN data.modules : data.modules[i].id # None
    ELSE \A i \in DOMAIN data.concepts : data.concepts[i].id # None

\* one attempt: <<result>>, or <<>> when the attempt raises
attempt(op, response) ==
    IF response.status # 200 THEN <<>>
    ELSE IF op = "generate" THEN response.content
    ELSE IF response.content = <<>> THEN <<>>
    ELSE IF ~validates(op, response.content[1]) THEN <<>>
    ELSE response.content

\* a variant without retry
attempts_made_once(op, responses, k) == k

\* the attempt the call ends with, counted from attempt k: the first one that
\* succeeds, or the last one allowed
RECURSIVE attempts_made(_, _, _)
attempts_made(op, responses, k) ==
    IF attempt(op, responses[k]) # <<>> \/ k >= MaxAttempts THEN k
    ELSE attempts_made(op, responses, k + 1)

\* what the generator returns for the call: the post-processed result, the
\* text, or <<>> when it raises
generator_result(op, responses) ==
    LET out == attempt(op, responses[attempts_made(op, responses, 1)])
    IN  IF out = <<>> THEN <<>>
        ELSE IF op = "generate_modules" THEN <<post_process_modules(out[1], "t1")>>
        ELSE IF op = "generate_concepts"
        THEN <<post_process_concepts(out[1], [id |-> "m1", topic_id |-> "t1"])>>
        ELSE out

Generate ==
    /\ last.op = "backend"
    /\ last' = [op |-> last.call, responses |-> last.responses,
                attempts |-> attempts_made(last.call, last.responses, 1),
                status |-> IF generator_result(last.call, last.responses) = <<>>
                           THEN 500 ELSE 200,
                data |-> generator_result(last.call, last.responses)]
    /\ UNCHANGED <<store, running, queued, client_calls>>

\* ------------------------------------------------------ specifications
\* Selection and cursor: every selection list, both TOCs; the backend returns
\* MaxModules modules without id per topic and one concept without id per
\* module.
SelModuleOutputs == {<<>>} \cup {<<r>> : r \in RawModuleOutputs({""}, {1}, {3}, {MaxModules})}

SelConceptOutputs == {<<>>} \cup {<<r>> : r \in RawConceptOutputs({""}, {10}, {3}, {1})}

\* the module ids a request can name
SelModuleIds == {module_id_for("", t, 1) : t \in {"t1", "t2"}}

Next ==
    \/ \E s \in Sessions, toc \in TocInputs : StoreTOC(s, toc)
    \/ \E u \in Users, s \in Sessions, ids \in SelInputs : CreateLearningPath(u, s, ids)
    \/ \E s \in Sessions, ids \in SelInputs : UpdateLearningPath(s, ids)
    \/ \E s \in Sessions, t \in {"t1", "t2"}, m \in SelModuleIds \cup {None} :
          UpdateCurrentSelection(s, t, m)
    \/ \E s \in Sessions, t \in {"t1", "t2"}, out \in SelModuleOutputs :
          GenerateModules(s, t, out)
    \/ \E s \in Sessions, m \in SelModuleIds, out \in SelConceptOutputs :
          GenerateConcepts(s, m, out)
    \/ \E s \in Sessions : GetNavigation(s)
    \/ \E s \in Sessions : GetNavigationData(s)
    \/ \E u \in Users : GetUserLearningPaths(u)
    \/ \E domain \in {"data_science", "finance"}, s \in Sessions,
          out \in {<<>>} \cup {<<toc>> : toc \in TocInputs} :
          GenerateTOC(domain, s, out)

Spec == Init /\ [][Next]_vars

\* ------------------------------------------------ the cascade specification
\* Both topics are selectable, and the Generation Client names the modules
\* itself ("m1") or leaves the id to the normalizer, so that two topics can
\* hold modules of one id.
CascadeToc == Toc("data_science", <<T1, T2>>)

CascadeSel == SeqsUpTo({"t1", "t2"}, MaxSel)

CascadeModuleOutputs ==
    {<<>>} \cup {<<r>> : r \in RawModuleOutputs({"", "m1"}, {1}, {1}, 1..MaxModules)}

CascadeConceptOutputs ==
    {<<>>} \cup {<<r>> : r \in RawConceptOutputs({""}, {10}, {1}, {1})}

\* the module ids a request can name
CascadeModuleIds ==
    {"m1"} \cup {module_id_for("", t, i) : t \in {"t1", "t2"}, i \in 1..MaxModules}

NextCascade ==
    \/ \E s \in Sessions : StoreTOC(s, CascadeToc)
    \/ \E u \in Users, s \in Sessions, ids \in CascadeSel : CreateLearningPath(u, s, ids)
    \/ \E s \in Sessions, ids \in CascadeSel : UpdateLearningPath(s, ids)
    \/ \E s \in Sessions, t \in {"t1", "t2"}, out \in CascadeModuleOutputs :
          GenerateModules(s, t, out)
    \/ \E s \in Sessions, m \in CascadeModuleIds, out \in CascadeConceptOutputs :
          GenerateConcepts(s, m, out)

SpecCascade == Init /\ [][NextCascade]_vars

\* ------------------------------------------------ the content specification
\* One topic; the backend gives the modules and concepts order values that
\* are not their positions, and names a concept itself ("c1", possibly twice)
\* or leaves the id to the normalizer.
ContentToc == Toc("data_science", <<T1>>)

ContentModuleOutputs ==
    {<<>>} \cup {<<r>> : r \in RawModuleOutputs({""}, {1}, {0, 7}, {MaxModules})}

ContentConceptOutputs ==
    {<<>>} \cup {<<r>> : r \in RawConceptOutputs({"", "c1"}, {10}, {0, 7}, {MaxConcepts})}

ContentModuleIds == {module_id_for("", "t1", 1)}

ContentConceptIds ==
    {"c1"} \cup {concept_id_for("", m, i) : m \in ContentModuleIds, i \in 1..MaxConcepts}

ContentTexts ==
    {<<>>, <<<<"#", "#", " ", "A", "\n", "b", "\n", "#", "#", " ", "B">>>>}

NotesTexts == {<<>>, <<"">>, <<"n">>}

StatusInputs == ConceptStatus \cup {"done"}

NextContent ==
    \/ \E s \in Sessions : StoreTOC(s, ContentToc)
    \/ \E u \in Users, s \in Sessions : CreateLearningPath(u, s, <<"t1">>)
    \/ \E s \in Sessions, out \in ContentModuleOutputs : GenerateModules(s, "t1", out)
    \/ \E s \in Sessions, m \in ContentModuleIds, out \in ContentConceptOutputs :
          GenerateConcepts(s, m, out)
    \/ \E s \in Sessions, c \in ContentConceptIds, out \in ContentTexts :
          GenerateConceptContent(s, c, out)
    \/ \E s \in Sessions, c \in ContentConceptIds, out \in NotesTexts :
          GenerateConceptNotes(s, c, out)
    \/ \E s \in Sessions, c \in ContentConceptIds, status \in StatusInputs :
          UpdateConceptProgress(s, c, status)

SpecContent == Init /\ [][NextContent]_vars

\* ---------------------------------------------- the event loop specification
\* Requests for the modules of t1 and for the concepts of its module arrive
\* while other requests wait or run.
MaxRequests == 3

LoopOutputs ==
    {<<>>} \cup {<<x>> : x \in RawModuleOutputs({""}, {1, 2}, {1}, {1})}
           \cup {<<x>> : x \in RawConceptOutputs({""}, {10}, {1}, {1})}

LoopRequests ==
    {<<"generate_modules", "t1">>, <<"generate_concepts", module_id_for("", "t1", 1)>>}

NextLoop ==
    \/ \E s \in Sessions : StoreTOC(s, ContentToc)
    \/ \E u \in Users, s \in Sessions : CreateLearningPath(u, s, <<"t1">>)
    \/ \E s \in Sessions, ids \in {<<>>, <<"t1">>} : UpdateLearningPath(s, ids)
    \/ \E r \in 1..MaxRequests, s \in Sessions, q \in LoopRequests : Arrive(r, q[1], s, q[2])
    \/ \E r \in 1..MaxRequests : Begin(r)
    \/ \E r \in 1..MaxRequests, out \in LoopOutputs : End(r, out)

SpecLoop == Init /\ [][NextLoop]_vars

\* ------------------------------------------- the normalizer specification
\* One topic; the backend returns up to NormModules modules and up to
\* MaxConcepts concepts with estimates at and around the limits of the
\* accepted ranges; deselecting the topic deletes them, so that the next
\* request generates again.
NormModules == 3

NormModuleOutputs ==
    {<<>>} \cup {<<r>> : r \in RawModuleOutputs({""}, {0, 1, 10, 11, 15}, {1},
                                                0..NormModules)}

NormConceptOutputs ==
    {<<>>} \cup {<<r>> : r \in RawConceptOutputs({""}, {2, 5, 6, 30, 31}, {1},
                                                 0..MaxConcepts)}

NormConceptIds == {concept_id_for("", m, 1) : m \in ContentModuleIds}

NextNorm ==
    \/ \E s \in Sessions : StoreTOC(s, ContentToc)
    \/ \E u \in Users, s \in Sessions : CreateLearningPath(u, s, <<"t1">>)
    \/ \E s \in Sessions, ids \in {<<>>, <<"t1">>} : UpdateLearningPath(s, ids)
    \/ \E s \in Sessions, out \in NormModuleOutputs : GenerateModules(s, "t1", out)
    \/ \E s \in Sessions, m \in ContentModuleIds, out \in NormConceptOutputs :
          GenerateConcepts(s, m, out)
    \/ \E s \in Sessions, c \in NormConceptIds, out \in ContentTexts :
          GenerateConceptContent(s, c, out)

SpecNorm == Init /\ [][NextNorm]_vars

\* --------------------------------------------- the splitter specification
\* Every text of up to MaxLines lines: heading lines, an indented heading, a
\* heading marker without title, a third-level heading, text and blank lines.
MaxLines == 4

LineKinds ==
    {<<"#", "#", " ", "A">>, <<" ", "#", "#", " ", "B">>, <<"#", "#", " ">>,
     <<"#", "#", "#", " ", "C">>, <<"a">>, <<>>}

RECURSIVE JoinLines(_)
JoinLines(lines) ==
    IF lines = <<>> THEN <<>>
    ELSE IF Len(lines) = 1 THEN lines[1]
    ELSE lines[1] \o <<"\n">> \o JoinLines(Tail(lines))

SplitTexts == {JoinLines(lines) : lines \in SeqsUpTo(LineKinds, MaxLines)}

InitSplit ==
    /\ InitStore
    /\ running = EmptyMap
    /\ queued = EmptyMap
    /\ client_calls = EmptyMap
    /\ \E content_text \in SplitTexts : last = ContentText(content_text)

NextSplit == Split

SpecSplit == InitSplit /\ [][NextSplit]_vars

\* ------------------------------------------ the two-session specification
\* two sessions of one user over the same TOC, so that both hold modules and
\* concepts with the same ids
IsoSessions == {"s1", "s2"}

IsoModuleOutputs == {<<>>} \cup {<<r>> : r \in RawModuleOutputs({""}, {1}, {1}, {1})}

IsoConceptOutputs == {<<>>} \cup {<<r>> : r \in RawConceptOutputs({""}, {10}, {1}, {1})}

NextIso ==
    \/ \E s \in IsoSessions : StoreTOC(s, ContentToc)
    \/ \E u \in Users, s \in IsoSessions : CreateLearningPath(u, s, <<"t1">>)
    \/ \E s \in IsoSessions, ids \in {<<>>, <<"t1">>} : UpdateLearningPath(s, ids)
    \/ \E s \in IsoSessions, m \in ContentModuleIds \cup {None} :
          UpdateCurrentSelection(s, "t1", m)
    \/ \E s \in IsoSessions, out \in IsoModuleOutputs : GenerateModules(s, "t1", out)
    \/ \E s \in IsoSessions, m \in ContentModuleIds, out \in IsoConceptOutputs :
          GenerateConcepts(s, m, out)
    \/ \E s \in IsoSessions, c \in NormConceptIds, out \in ContentTexts :
          GenerateConceptContent(s, c, out)
    \/ \E s \in IsoSessions, c \in NormConceptIds, out \in NotesTexts :
          GenerateConceptNotes(s, c, out)
    \/ \E s \in IsoSessions, c \in NormConceptIds :
          UpdateConceptProgress(s, c, "completed")

SpecIso == Init /\ [][NextIso]_vars

\* --------------------------------- content requests on the event loop
\* A content request waits in queued until the event loop starts its handler;
\* the handler reads the concept, calls the Generation Client with what it
\* has read (concept_data) and stores the concept it builds from that.
BeginContent(r) ==
    /\ LoopFree
    /\ r \in DOMAIN queued
    /\ queued' = MapDel(queued, r)
    /\ IF generate_content_outcome(queued[r].session, queued[r].parent) # "generate"
       THEN /\ UNCHANGED <<store, running>>
            /\ last' = Resp("generate_concept_content", queued[r].session, queued[r].parent,
                            OutcomeStatus(generate_content_outcome(queued[r].session,
                                                                   queued[r].parent)),
                            FALSE,
                            IF generate_content_outcome(queued[r].session, queued[r].parent)
                                  = "cached"
                            THEN get_concept_data(queued[r].session, queued[r].parent)
                            ELSE <<>>)
            /\ TrackCalls
       ELSE /\ running' = MapSet(running, r,
                   [op |-> queued[r].op, session |-> queued[r].session,
                    parent |-> queued[r].parent,
                    concept_data |-> get_concept_data(queued[r].session, queued[r].parent)])
            /\ UNCHANGED <<store, client_calls, last>>

\* the Generation Client call of a running content handler returns out
EndContent(r, out) ==
    /\ r \in DOMAIN running
    /\ running' = MapDel(running, r)
    /\ IF out = <<>>
       THEN /\ UNCHANGED store
            /\ last' = Resp("generate_concept_content", running[r].session,
                            running[r].parent, 500, TRUE, <<>>)
       ELSE /\ module_concepts' =
                   store_concept_content(running[r].session,
                       concept_with_content(running[r].concept_data[1], out[1]))
            /\ UNCHANGED <<learning_paths, tocs, topic_modules, user_sessions,
                           current_selections>>
            /\ last' = Resp("generate_concept_content", running[r].session,
                            running[r].parent, 200, TRUE,
                            <<concept_with_content(running[r].concept_data[1], out[1])>>)
    /\ UNCHANGED queued
    /\ TrackCalls

\* One topic, one module, one concept; status and notes updates are served
\* while content requests for the concept wait or run.
NextContentLoop ==
    \/ \E s \in Sessions : StoreTOC(s, ContentToc)
    \/ \E u \in Users, s \in Sessions : CreateLearningPath(u, s, <<"t1">>)
    \/ \E s \in Sessions, out \in IsoModuleOutputs : GenerateModules(s, "t1", out)
    \/ \E s \in Sessions, m \in ContentModuleIds, out \in IsoConceptOutputs :
          GenerateConcepts(s, m, out)
    \/ \E s \in Sessions, c \in NormConceptIds, out \in NotesTexts :
          GenerateConceptNotes(s, c, out)
    \/ \E s \in Sessions, c \in NormConceptIds, status \in StatusInputs :
          UpdateConceptProgress(s, c, status)
    \/ \E r \in 1..MaxRequests, s \in Sessions, c \in NormConceptIds :
          Arrive(r, "generate_concept_content", s, c)
    \/ \E r \in 1..MaxRequests : BeginContent(r)
    \/ \E r \in 1..MaxRequests, out \in ContentTexts : EndContent(r, out)

SpecContentLoop == Init /\ [][NextContentLoop]_vars

\* ------------------------------------------ the Generation Client specification
\* One generator call against a service whose three answers are drawn here:
\* an error status, a content that is no JSON, a list of two children with ids
\* that are missing, empty or given; for generate an error status or a text.
BackendResponses(op) ==
    LET ChildIds == {None, "", "x"}
        ModulePayloads ==
            {RawTopicWithModules(<<RawModule(a, 1, 1), RawModule(b, 1, 1)>>) :
                a, b \in ChildIds}
        ConceptPayloads ==
            {RawModuleWithConcepts(<<RawConcept(a, 10, 1), RawConcept(b, 10, 1)>>) :
                a, b \in ChildIds}
    IN  {[status |-> 500, content |-> <<>>]}
        \cup {[status |-> 200, content |-> <<>>] : x \in {op} \ {"generate"}}
        \cup {[status |-> 200, content |-> <<p>>] :
                 p \in IF op = "generate_modules" THEN ModulePayloads
                       ELSE IF op = "generate_concepts" THEN ConceptPayloads
                       ELSE {"", "n", "## A"}}

InitClient ==
    /\ InitStore
    /\ running = EmptyMap
    /\ queued = EmptyMap
    /\ client_calls = EmptyMap
    /\ \E op \in {"generate_modules", "generate_concepts", "generate"} :
          \E responses \in [1..MaxAttempts -> BackendResponses(op)] :
             last = [op |-> "backend", call |-> op, responses |-> responses]

SpecClient == InitClient /\ [][Generate]_vars

\* ============================================================ properties
IsDone(r, op) == r.op = op /\ r.status = 200

\* C1: a generation request for a parent whose children are stored (a request
\* for that parent succeeded and nothing deleted them since) succeeds, leaves
\* the store as it is, does not invoke the Generation Client and returns the
\* stored collection; the client has been invoked once for the stored children.
C1_SequentialIdempotency ==
    [][/\ (last'.op = "generate_modules"
            /\ get_topic_modules(last'.session, last'.parent) # <<>>)
          => /\ UNCHANGED store
             /\ last'.status = 200 /\ ~last'.invoked
             /\ last'.data = get_topic_modules(last'.session, last'.parent)
             /\ client_calls'[<<last'.session, "generate_modules", last'.parent>>] = 1
       /\ (last'.op = "generate_concepts"
            /\ get_module_concepts(last'.session, last'.parent) # <<>>)
          => /\ UNCHANGED store
             /\ last'.status = 200 /\ ~last'.invoked
             /\ last'.data = get_module_concepts(last'.session, last'.parent)
             /\ client_calls'[<<last'.session, "generate_concepts", last'.parent>>] = 1
      ]_vars

\* a second request for the concepts of a module was answered from the store
C1_Witness ==
    /\ IsDone(last, "generate_concepts") /\ ~last.invoked
    /\ last.data # <<>>
    /\ last.data = get_module_concepts(last.session, last.parent)
    /\ Len(get_all_session_modules(last.session)) = 2

\* C2: in every execution, requests that overlap included, the Generation
\* Client is called at most once for the children a parent has in the store:
\* the call that produced them and no call while they stay stored.
C2_AtMostOneGeneration ==
    \A k \in DOMAIN client_calls : client_calls[k] <= 1

\* a request that arrived while another request for the same parent was
\* waiting or running was answered from the store without a call
C2_Witness ==
    /\ IsDone(last, "generate_concepts") /\ last.overlapped /\ ~last.invoked
    /\ last.data # <<>>
    /\ client_calls[<<last.session, "generate_concepts", last.parent>>] = 1
    /\ client_calls[<<last.session, "generate_modules", "t1">>] = 1

StoredModulesUnder(tm, s, t) ==
    IF s \in DOMAIN tm /\ DictHas(tm[s], t) THEN DictGet(tm[s], t).modules ELSE <<>>

HasModules(tm, s, t) == s \in DOMAIN tm /\ DictHas(tm[s], t)

HasConcepts(mc, s, m) == s \in DOMAIN mc /\ DictHas(mc[s], m)

\* C3: after a successful updateLearningPath, for every topic selected before
\* and not selected after, the session holds no module collection for the
\* topic and no concept collection keyed by a module stored under the topic.
C3_CascadingDelete ==
    [][IsDone(last', "update_learning_path") =>
          LET s == last'.session
          IN  \A t \in SeqToSet(learning_paths[s].selected_topics)
                        \ SeqToSet(learning_paths'[s].selected_topics) :
                 /\ ~HasModules(topic_modules', s, t)
                 /\ \A i \in DOMAIN StoredModulesUnder(topic_modules, s, t) :
                       ~HasConcepts(module_concepts', s,
                                    StoredModulesUnder(topic_modules, s, t)[i].id)]_vars

\* an update removed a topic that had modules, and concepts under one of them
C3_Witness ==
    /\ IsDone(last, "update_learning_path")
    /\ last.prior.removed # {}
    /\ last.prior.dropped # {}
    /\ learning_paths[last.session].selected_topics # <<>>

\* C4: a successful updateLearningPath leaves unchanged the module collection
\* of every topic that remains selected and the concept collection of every
\* module stored under such a topic.
C4_CascadeFrame ==
    [][IsDone(last', "update_learning_path") =>
          LET s == last'.session
          IN  \A t \in SeqToSet(learning_paths[s].selected_topics)
                        \cap SeqToSet(learning_paths'[s].selected_topics) :
                 /\ StoredModulesUnder(topic_modules', s, t)
                       = StoredModulesUnder(topic_modules, s, t)
                 /\ HasModules(topic_modules', s, t) = HasModules(topic_modules, s, t)
                 /\ \A i \in DOMAIN StoredModulesUnder(topic_modules, s, t) :
                       LET m == StoredModulesUnder(topic_modules, s, t)[i].id
                       IN  HasConcepts(module_concepts, s, m)
                           => /\ HasConcepts(module_concepts', s, m)
                              /\ DictGet(module_concepts'[s], m)
                                   = DictGet(module_concepts[s], m)]_vars

PathOps == {"create_learning_path", "update_learning_path"}

\* C5: when createLearningPath or updateLearningPath is rejected (no TOC, no
\* path to update, or a selected id that is no topic of the TOC), every
\* component of the store is what it was before the call.
C5_RejectedSelectionMutatesNothing ==
    [][(last'.op \in PathOps /\ last'.status # 200) => UNCHANGED store]_vars

\* a selection with an unknown id was rejected while a path, modules, concepts
\* and a cursor were stored
C5_Witness ==
    /\ last.op = "update_learning_path" /\ last.status = 400
    /\ last.session \in DOMAIN learning_paths
    /\ get_all_session_modules(last.session) # <<>>
    /\ get_all_session_concepts(last.session) # <<>>
    /\ last.session \in DOMAIN current_selections

SelectionValid(s) ==
    SeqToSet(learning_paths[s].selected_topics) \subseteq toc_topic_ids(tocs[s])

\* C6: in every reachable state every selected topic id of a session's path is
\* the id of a topic of the session's current TOC.
C6_SelectionInvariant ==
    \A s \in DOMAIN learning_paths : SelectionValid(s)

HoursOfTopic(toc, id) ==
    LET i == CHOOSE j \in DOMAIN toc.topics : toc.topics[j].id = id
    IN  toc.topics[i].estimated_hours

RECURSIVE SumOverIds(_, _)
SumOverIds(toc, S) ==
    IF S = {} THEN 0
    ELSE LET id == CHOOSE x \in S : TRUE
         IN  HoursOfTopic(toc, id) + SumOverIds(toc, S \ {id})

\* C7: after every successful createLearningPath or updateLearningPath, and
\* whenever a path's record changes, its total hours are the sum of the hours
\* of its selected topics: ids and total are replaced together.
C7_TotalHours ==
    [][\A s \in DOMAIN learning_paths' :
          (\/ last'.op \in PathOps /\ last'.status = 200 /\ last'.session = s
           \/ s \notin DOMAIN learning_paths
           \/ learning_paths'[s] # learning_paths[s])
          => learning_paths'[s].estimated_total_hours =
                SumOverIds(tocs'[s], SeqToSet(learning_paths'[s].selected_topics))]_vars

\* the scenario of the specification: [t1, t2] of 3 and 4 hours was selected
\* (7 hours) and the selection was then updated to [t2]: 4 hours
C7_Witness ==
    /\ IsDone(last, "update_learning_path")
    /\ last.prior.hours = 7
    /\ learning_paths[last.session].selected_topics = <<"t2">>
    /\ learning_paths[last.session].estimated_total_hours = 4

\* C8: after a successful createLearningPath(session, ids) the cursor is
\* (ids[0], none, none) when ids is not empty, and the session has no cursor
\* when ids is empty, whatever the state before.
C8_CursorOnCreation ==
    [][IsDone(last', "create_learning_path") =>
          LET s == last'.session
              ids == learning_paths'[s].selected_topics
          IN  IF ids # <<>>
              THEN /\ s \in DOMAIN current_selections'
                   /\ current_selections'[s] = Cursor(ids[1], None, None)
              ELSE s \notin DOMAIN current_selections']_vars

\* C9: after a successful updateLearningPath(session, ids): when the cursor's
\* topic before the call is not in ids, the cursor is (ids[0], none, none) for
\* a non-empty ids and is removed for an empty ids; when it is in ids, the
\* cursor is unchanged.
C9_CursorOnUpdate ==
    [][IsDone(last', "update_learning_path") =>
          LET s == last'.session
              ids == learning_paths'[s].selected_topics
          IN  IF get_current_selection(s).current_topic_id \notin SeqToSet(ids)
              THEN IF ids # <<>>
                   THEN /\ s \in DOMAIN current_selections'
                        /\ current_selections'[s] = Cursor(ids[1], None, None)
                   ELSE s \notin DOMAIN current_selections'
              ELSE UNCHANGED current_selections]_vars

\* the cursor stood on t1, t1 had modules and was deselected: the cursor moved
\* to the first remaining topic
C9_Witness ==
    /\ IsDone(last, "update_learning_path")
    /\ last.prior.topic = "t1"
    /\ last.prior.removed = {"t1"}
    /\ last.session \in DOMAIN current_selections
    /\ current_selections[last.session] = Cursor("t2", None, None)

OrderedByPosition(q) == \A i \in DOMAIN q : q[i].order = i

\* C10: in every reachable state, in every stored module collection and every
\* stored concept collection the element at position i has order i, whatever
\* the order values of the raw output, and after content, notes and status
\* updates.
C10_OrderingInvariant ==
    /\ \A s \in DOMAIN topic_modules : \A j \in DOMAIN topic_modules[s] :
          OrderedByPosition(topic_modules[s][j].v.modules)
    /\ \A s \in DOMAIN module_concepts : \A j \in DOMAIN module_concepts[s] :
          OrderedByPosition(module_concepts[s][j].v.concepts)

\* the second of two concepts, generated with raw order 0 or 7, has content blocks,
\* notes and a changed status
C10_Witness ==
    \E s \in DOMAIN module_concepts : \E j \in DOMAIN module_concepts[s] :
        LET cs == module_concepts[s][j].v.concepts
        IN  /\ Len(cs) = 2
            /\ Len(cs[2].content_blocks) = 2
            /\ cs[2].notes_summary = "n"
            /\ cs[2].status = "completed"
            /\ last.op = "update_concept_progress"

AllStoredTopics ==
    UNION {{topic_modules[s][j].v : j \in DOMAIN topic_modules[s]}
           : s \in DOMAIN topic_modules}

AllStoredModuleParents ==
    UNION {{module_concepts[s][j].v : j \in DOMAIN module_concepts[s]}
           : s \in DOMAIN module_concepts}

HoursInRange(h) == 0 < h /\ h <= 10

MinutesInRange(mi) == 5 < mi /\ mi <= 30

\* C11: every stored module has 0 < hours <= 10 and every stored concept has
\* 5 < minutes <= 30; when the Generation Client returns a result the request
\* succeeds, and each stored estimate is the raw one when that is in range
\* and the default (2 hours, 15 minutes) when it is not.
C11_Clamping ==
    /\ [](/\ \A twm \in AllStoredTopics : \A i \in DOMAIN twm.modules :
                HoursInRange(twm.modules[i].estimated_hours)
          /\ \A mwc \in AllStoredModuleParents : \A i \in DOMAIN mwc.concepts :
                MinutesInRange(mwc.concepts[i].estimated_minutes))
    /\ [][(last'.invoked /\ last'.raw # <<>>) =>
            /\ last'.status = 200
            /\ last'.op = "generate_modules" =>
                 LET raw == last'.raw[1].modules
                     got == DictGet(topic_modules'[last'.session], last'.parent).modules
                 IN  /\ Len(got) = Len(raw)
                     /\ \A i \in DOMAIN raw :
                          got[i].estimated_hours =
                             IF HoursInRange(raw[i].estimated_hours)
                             THEN raw[i].estimated_hours ELSE 2
            /\ last'.op = "generate_concepts" =>
                 LET raw == last'.raw[1].concepts
                     got == DictGet(module_concepts'[last'.session], last'.parent).concepts
                 IN  /\ Len(got) = Len(raw)
                     /\ \A i \in DOMAIN raw :
                          got[i].estimated_minutes =
                             IF MinutesInRange(raw[i].estimated_minutes)
                             THEN raw[i].estimated_minutes ELSE 15]_vars

\* a concept returned with 2 minutes is stored with 15, under a topic whose
\* first module is stored with the 10 hours it was returned with and whose
\* second module, returned out of range, is stored with the default
C11_Witness ==
    /\ IsDone(last, "generate_concepts") /\ last.invoked
    /\ last.raw[1].concepts # <<>>
    /\ last.raw[1].concepts[1].estimated_minutes = 2
    /\ last.data[1].concepts[1].estimated_minutes = 15
    /\ \E twm \in AllStoredTopics :
          /\ Len(twm.modules) >= 2
          /\ twm.modules[1].estimated_hours = 10
          /\ twm.modules[2].estimated_hours = 2

RECURSIVE SumOf(_, _)
SumOf(q, f) == IF q = <<>> THEN 0 ELSE q[1][f] + SumOf(Tail(q), f)

\* C12: in every reachable state the total hours of each stored module
\* collection are the sum of its modules' hours and the total minutes of each
\* stored concept collection are the sum of its concepts' minutes, whatever
\* total the raw output carried.
C12_AggregateTotals ==
    /\ \A twm \in AllStoredTopics :
          twm.total_estimated_hours = SumOf(twm.modules, "estimated_hours")
    /\ \A mwc \in AllStoredModuleParents :
          mwc.total_estimated_minutes = SumOf(mwc.concepts, "estimated_minutes")

\* three modules of 1 hour, returned with a total of 99, are stored with 3
C12_Witness ==
    /\ IsDone(last, "generate_modules") /\ last.invoked
    /\ last.raw[1].total_estimated_hours = 99
    /\ Len(last.data[1].modules) = 3
    /\ \A i \in 1..3 : last.data[1].modules[i].estimated_hours = 1
    /\ DictGet(topic_modules[last.session], "t1").total_estimated_hours = 3

Marker == <<"#", "#", " ">>

IsPrefix(p, q) == Len(p) <= Len(q) /\ \A i \in 1..Len(p) : q[i] = p[i]

\* the lines of a text, cut at every "\n"
RECURSIVE LinesOf(_)
LinesOf(text) ==
    IF \A i \in DOMAIN text : text[i] # "\n" THEN <<text>>
    ELSE LET n == CHOOSE i \in DOMAIN text :
                     text[i] = "\n" /\ \A j \in 1..(i - 1) : text[j] # "\n"
         IN  <<SubSeq(text, 1, n - 1)>> \o LinesOf(SubSeq(text, n + 1, Len(text)))

Blank(q) == \A i \in DOMAIN q : q[i] \in {" ", "\n"}

RECURSIVE Trimmed(_)
Trimmed(q) ==
    IF q = <<>> THEN q
    ELSE IF q[1] \in {" ", "\n"} THEN Trimmed(Tail(q))
    ELSE IF q[Len(q)] \in {" ", "\n"} THEN Trimmed(SubSeq(q, 1, Len(q) - 1))
    ELSE q

\* the lines that start with the marker "## " as they are
MarkerLines(text) == {i \in DOMAIN LinesOf(text) : IsPrefix(Marker, LinesOf(text)[i])}

\* the lines that start with the marker once surrounding blanks are removed
HeadingLines(text) ==
    {i \in DOMAIN LinesOf(text) : IsPrefix(Marker, Trimmed(LinesOf(text)[i]))}

\* position k of a set of line numbers, in increasing order
Nth(S, k) == CHOOSE i \in S : Cardinality({j \in S : j < i}) = k - 1

IsSplit(r) == r.op = "parse_content_into_blocks"

\* C13 as stated: every text with exactly two lines starting with "## " gives
\* exactly 2 blocks, each starting at its heading line.
C13_TwoHeadingsTwoBlocks ==
    (IsSplit(last) /\ Cardinality(MarkerLines(last.raw[1])) = 2) =>
        /\ Len(last.data) = 2
        /\ \A k \in 1..2 :
              IsPrefix(Trimmed(LinesOf(last.raw[1])[Nth(MarkerLines(last.raw[1]), k)]),
                       last.data[k].content)

\* C13: every text with exactly two heading lines (lines that start with
\* "## " once surrounding blanks are removed) and only blank lines before the
\* first of them gives exactly 2 blocks, each starting at its heading line;
\* with text before the first heading it gives 3 blocks, the first being
\* that text.
C13_TwoHeadingsNoPreamble ==
    (IsSplit(last) /\ Cardinality(HeadingLines(last.raw[1])) = 2) =>
        LET text == last.raw[1]
            first == Nth(HeadingLines(text), 1)
            preamble == \E i \in 1..(first - 1) : ~Blank(LinesOf(text)[i])
            shift == IF preamble THEN 1 ELSE 0
        IN  /\ Len(last.data) = 2 + shift
            /\ \A k \in 1..2 :
                  IsPrefix(Trimmed(LinesOf(text)[Nth(HeadingLines(text), k)]),
                           last.data[k + shift].content)
            /\ preamble => IsPrefix(Trimmed(LinesOf(text)[
                                      CHOOSE i \in 1..(first - 1) :
                                         /\ ~Blank(LinesOf(text)[i])
                                         /\ \A j \in 1..(i - 1) : Blank(LinesOf(text)[j])]),
                                    last.data[1].content)

\* a text of a heading, a line of text and a second heading gave two blocks
C13_Witness ==
    /\ IsSplit(last)
    /\ last.raw[1] = <<"#", "#", " ", "A", "\n", "a", "\n", "#", "#", " ", "A">>
    /\ Len(last.data) = 2
    /\ last.data[1].content = <<"#", "#", " ", "A", "\n", "a">>
    /\ last.data[2].content = <<"#", "#", " ", "A">>

\* C14: every text without a line starting with "## " gives exactly 1 block,
\* whose content is the whole text and whose estimated minutes are 5.
C14_NoHeadingsOneBlockOfFive ==
    (IsSplit(last) /\ MarkerLines(last.raw[1]) = {} /\ HeadingLines(last.raw[1]) = {}) =>
        /\ Len(last.data) = 1
        /\ last.data[1].content = Trimmed(last.raw[1])
        /\ last.data[1].estimated_minutes = 5

\* C15: after storeTOC(session, toc) the session's TOC is the new one and the
\* session holds no module collection and no concept collection.
C15_StoreTocResetsMaps ==
    [][last'.op = "store_toc" =>
          LET s == last'.session
          IN  /\ s \in DOMAIN tocs'
              /\ s \in DOMAIN topic_modules' => topic_modules'[s] = <<>>
              /\ s \in DOMAIN module_concepts' => module_concepts'[s] = <<>>]_vars

GenerationOps ==
    {"generate_modules", "generate_concepts", "generate_concept_content",
     "generate_concept_notes"}

\* C16: when the Generation Client fails during module, concept, content or
\* notes generation, the request ends with the generation-failed error (500)
\* and every component of the store is what it was before the request.
C16_NoPartialPersistence ==
    [][(last'.op \in GenerationOps /\ last'.invoked /\ last'.status # 200)
       => (last'.status = 500 /\ UNCHANGED store)]_vars

\* the content generation of a stored concept failed while its module held
\* two concepts
C16_Witness ==
    /\ last.op = "generate_concept_content" /\ last.invoked /\ last.status = 500
    /\ get_concept_data(last.session, last.parent) # <<>>
    /\ get_concept_data(last.session, last.parent)[1].content_blocks = <<>>
    /\ \E mwc \in AllStoredModuleParents : Len(mwc.concepts) = 2

NormalizedModules(twm) ==
    /\ \A i \in DOMAIN twm.modules :
          /\ twm.modules[i].id # ""
          /\ twm.modules[i].topic_id = twm.topic_id
          /\ twm.modules[i].order = i
          /\ HoursInRange(twm.modules[i].estimated_hours)
    /\ twm.total_estimated_hours = SumOf(twm.modules, "estimated_hours")

NormalizedBlocks(blocks) ==
    \A i \in DOMAIN blocks :
        /\ blocks[i].order = i
        /\ blocks[i].id = "block_" \o ToString(i)
        /\ blocks[i].content # <<>>

NormalizedConcepts(mwc) ==
    /\ \A i \in DOMAIN mwc.concepts :
          /\ mwc.concepts[i].id # ""
          /\ mwc.concepts[i].module_id = mwc.module_id
          /\ mwc.concepts[i].order = i
          /\ MinutesInRange(mwc.concepts[i].estimated_minutes)
          /\ NormalizedBlocks(mwc.concepts[i].content_blocks)
    /\ mwc.total_estimated_minutes = SumOf(mwc.concepts, "estimated_minutes")

\* C17: in every state another request can read, each stored module
\* collection, concept collection and content-block list is the complete
\* normalized one: ids assigned, parent id set, order 1..N, estimates inside
\* their ranges, total recomputed.
C17_NoPartialState ==
    /\ \A twm \in AllStoredTopics : NormalizedModules(twm)
    /\ \A mwc \in AllStoredModuleParents : NormalizedConcepts(mwc)

\* content blocks have just been stored on a concept of a two-concept module
\* whose topic holds at least two modules
C17_Witness ==
    /\ last.op = "generate_concept_content" /\ last.invoked /\ last.status = 200
    /\ \E twm \in AllStoredTopics : Len(twm.modules) >= 2
    /\ \E mwc \in AllStoredModuleParents :
          /\ Len(mwc.concepts) = 2
          /\ Len(mwc.concepts[1].content_blocks) = 2

EntryOf(map, s) == IF s \in DOMAIN map THEN <<map[s]>> ELSE <<>>

\* what the store holds for session s
SessionState(s) ==
    <<EntryOf(tocs, s), EntryOf(learning_paths, s), EntryOf(topic_modules, s),
      EntryOf(module_concepts, s), EntryOf(current_selections, s)>>

\* C18: an operation invoked with session id s leaves the TOC, the learning
\* path, the module collections, the concept collections and the cursor of
\* every other session as they were.
C18_SessionIsolation ==
    [][\A other \in IsoSessions :
          other # last'.session => SessionState(other)' = SessionState(other)]_vars

\* session s1 has just deselected t1 and lost its modules and concepts, while
\* s2 still holds the modules and concepts with the same ids
C18_Witness ==
    /\ last.op = "update_learning_path" /\ last.session = "s1" /\ last.status = 200
    /\ "t1" \in last.prior.removed
    /\ last.prior.dropped # {}
    /\ get_topic_modules("s1", "t1") = <<>>
    /\ get_topic_modules("s2", "t1") # <<>>
    /\ get_concept_data("s2", concept_id_for("", module_id_for("", "t1", 1), 1)) # <<>>

StoredFor(r) ==
    IF r.op = "generate_modules" THEN get_topic_modules(r.session, r.parent)
    ELSE get_module_concepts(r.session, r.parent)

\* C19: when requests for the same session and parent have each passed the
\* existence check and generated, the collection stored for the parent once
\* the last of them has written is exactly the complete normalized result of
\* that request: it is present, it is what that request returned, and it is no
\* mixture with an earlier result.
C19_LastWriterWins ==
    (last.op \in {"generate_modules", "generate_concepts"} /\ last.invoked
     /\ last.status = 200)
    => /\ StoredFor(last) = last.data
       /\ last.op = "generate_modules"
            => /\ NormalizedModules(last.data[1])
               /\ Len(last.data[1].modules) = Len(last.raw[1].modules)
       /\ last.op = "generate_concepts"
            => /\ NormalizedConcepts(last.data[1])
               /\ Len(last.data[1].concepts) = Len(last.raw[1].concepts)

\* two requests for the modules of t1 have generated and stored while a third
\* one was waiting; the second of them has just written a result of 2 hours
C19_Witness ==
    /\ last.op = "generate_modules" /\ last.invoked /\ last.status = 200
    /\ \E w \in DOMAIN queued :
          /\ RequestKey(queued[w]) = <<last.session, last.op, last.parent>>
          /\ queued[w].preceded = 2
    /\ last.data[1].total_estimated_hours = 2
    /\ StoredFor(last) = last.data

\* the children stored for the parent of request r are present and non-empty
StoredNonEmpty(r) ==
    /\ StoredFor(r) # <<>>
    /\ IF r.op = "generate_modules" THEN StoredFor(r)[1].modules # <<>>
       ELSE StoredFor(r)[1].concepts # <<>>

\* C20: a module or concept generation request that passes its validation is
\* answered from the store if and only if the children stored for the parent
\* are present and non-empty; over a stored collection with zero children the
\* request calls the Generation Client again.
C20_CacheCondition ==
    [][(last'.op \in {"generate_modules", "generate_concepts"}
        /\ last'.status \in {200, 500})
       => (~last'.invoked <=> StoredNonEmpty(last'))]_vars

\* the stored concept a content or notes request r names, read before the step
ConceptBefore(r) == get_concept_data(r.session, r.parent)

\* C21: once a content request (a notes request) for a concept has completed
\* successfully, whatever text the Generation Client returned, a later content
\* (notes) request for the concept, while it is stored, returns the stored
\* content blocks (notes) and does not call the Generation Client.
C21_ContentAndNotesOnce ==
    [][/\ (last'.op = "generate_concept_content" /\ ConceptBefore(last') # <<>>
           /\ ConceptBefore(last')[1].content_blocks # <<>>)
          => /\ ~last'.invoked /\ last'.status = 200
             /\ last'.data = ConceptBefore(last')
             /\ UNCHANGED store
       /\ (last'.op = "generate_concept_notes" /\ ConceptBefore(last') # <<>>
           /\ ConceptBefore(last')[1].notes_summary # None)
          => /\ ~last'.invoked /\ last'.status = 200
             /\ last'.data = <<ConceptBefore(last')[1].notes_summary>>
             /\ UNCHANGED store]_vars

IsNavigation(r) == r.op = "get_concept_navigation" /\ r.status = 200

TopicIdsOf(nav) == [i \in DOMAIN nav |-> nav[i].topic_id]

\* the items carry the cursor flag and the stored modules in stored order
ItemsFaithful(s, nav) ==
    \A i \in DOMAIN nav :
        /\ nav[i].is_current_topic
             <=> nav[i].topic_id = get_current_selection(s).current_topic_id
        /\ LET stored == StoredModulesUnder(topic_modules, s, nav[i].topic_id)
           IN  /\ Len(nav[i].modules) = Len(stored)
               /\ \A j \in DOMAIN stored : nav[i].modules[j].module_id = stored[j].id

ModuleItemsOf(nav) ==
    UNION {{nav[i].modules[j] : j \in DOMAIN nav[i].modules} : i \in DOMAIN nav}

\* C23: in the assembled navigation tree a module item lists concepts only if
\* its module id is the cursor's current module id and concepts are stored
\* for it; every other module item has an empty concepts list, also when
\* concepts_generated is true for it.
C23_LazyConceptExpansion ==
    IsNavigation(last)
    => \A item \in ModuleItemsOf(last.data[1].navigation) :
          /\ item.concepts # <<>>
               => /\ item.module_id
                       = get_current_selection(last.session).current_module_id
                  /\ HasConcepts(module_concepts, last.session, item.module_id)
          /\ item.module_id # get_current_selection(last.session).current_module_id
               => item.concepts = <<>>
          /\ item.concepts_generated
               <=> HasConcepts(module_concepts, last.session, item.module_id)

\* concepts are stored for a module of each topic; the list shows those of the
\* current module and none for the other one
C23_Witness ==
    /\ IsNavigation(last)
    /\ \E a, b \in ModuleItemsOf(last.data[1].navigation) :
          /\ a.is_current_module /\ a.concepts_generated /\ a.concepts # <<>>
          /\ ~b.is_current_module /\ b.concepts_generated /\ b.concepts = <<>>

\* position <<j, i>> of d holds the first concept of id c in scan order
IsFirstMatch(d, j, i, c) ==
    /\ d[j].v.concepts[i].id = c
    /\ \A i2 \in 1..(i - 1) : d[j].v.concepts[i2].id # c
    /\ \A j2 \in 1..(j - 1) : \A i2 \in DOMAIN d[j2].v.concepts :
          d[j2].v.concepts[i2].id # c

\* new is module_concepts with the first concept of id c in session s
\* replaced by patch(that concept) and nothing else changed
PatchedFirst(new, s, c, patch(_)) ==
    /\ DOMAIN new = DOMAIN module_concepts
    /\ \A x \in DOMAIN new \ {s} : new[x] = module_concepts[x]
    /\ s \in DOMAIN new =>
         /\ Len(new[s]) = Len(module_concepts[s])
         /\ \A j \in DOMAIN new[s] :
               LET old == module_concepts[s][j]
               IN  /\ new[s][j].k = old.k
                   /\ [new[s][j].v EXCEPT !.concepts = <<>>]
                         = [old.v EXCEPT !.concepts = <<>>]
                   /\ Len(new[s][j].v.concepts) = Len(old.v.concepts)
                   /\ \A i \in DOMAIN old.v.concepts :
                         new[s][j].v.concepts[i] =
                            IF IsFirstMatch(module_concepts[s], j, i, c)
                            THEN patch(old.v.concepts[i])
                            ELSE old.v.concepts[i]

ProbeConcept(c) ==
    [RawConcept(c, 10, 1) EXCEPT !.content_blocks = <<ContentBlock(1, <<"x">>, 5)>>]

ProbeIds == ContentConceptIds \cup {"cx"}

WithContent(old) == ProbeConcept(old.id)

WithNotes(old) == [old EXCEPT !.notes_summary = "z"]

WithStatus(old) == [old EXCEPT !.status = "completed"]

\* the three patches applied to the present store with every probe id
PatchesBestEffort ==
    \A s \in Sessions, c \in ProbeIds :
        /\ PatchedFirst(store_concept_content(s, ProbeConcept(c)), s, c, WithContent)
        /\ PatchedFirst(store_concept_notes(s, c, "z"), s, c, WithNotes)
        /\ PatchedFirst(update_concept_progress(s, c, "completed"), s, c, WithStatus)
        /\ get_concept_data(s, c) = <<>>
             => /\ store_concept_content(s, ProbeConcept(c)) = module_concepts
                /\ store_concept_notes(s, c, "z") = module_concepts
                /\ update_concept_progress(s, c, "completed") = module_concepts

\* C24: the content, notes and status patches called with a concept id that
\* the session does not store raise no error and leave the store as it was;
\* with a stored id they change the first concept of that id in scan order
\* and nothing else.
C24_BestEffortPatches ==
    /\ []PatchesBestEffort
    /\ [][(last'.op = "update_concept_progress"
           /\ last'.data \in {<<st>> : st \in ConceptStatus})
          => /\ last'.status = 200
             /\ UNCHANGED <<learning_paths, tocs, topic_modules, user_sessions,
                            current_selections>>
             /\ LET SetStatus(old) == [old EXCEPT !.status = last'.data[1]]
                IN  PatchedFirst(module_concepts', last'.session, last'.parent,
                                 SetStatus)]_vars

\* a module holds two concepts of id c1; a status update for c1 has marked the
\* first one and left the second
C24_Witness ==
    /\ last.op = "update_concept_progress" /\ last.status = 200
    /\ last.parent = "c1"
    /\ \E mwc \in AllStoredModuleParents :
          /\ Len(mwc.concepts) = 2
          /\ mwc.concepts[1].id = "c1" /\ mwc.concepts[2].id = "c1"
          /\ mwc.concepts[1].status = "completed"
          /\ mwc.concepts[2].status = "not_started"

\* C25: in every reachable state the module collection stored under topic key
\* t has topic_id t and so has each of its modules; the concept collection
\* stored under module key m has module_id m, the topic_id of a stored module
\* of id m, and each of its concepts has module_id m, whatever parent ids the
\* raw output carried.
C25_ParentIdsForced ==
    \A s \in DOMAIN topic_modules :
        /\ \A j \in DOMAIN topic_modules[s] :
              LET t == topic_modules[s][j].k
                  twm == topic_modules[s][j].v
              IN  /\ twm.topic_id = t
                  /\ \A i \in DOMAIN twm.modules : twm.modules[i].topic_id = t
        /\ \A j \in DOMAIN get_all_session_concepts(s) :
              LET m == module_concepts[s][j].k
                  mwc == module_concepts[s][j].v
                  mods == AllModules(topic_modules[s])
              IN  /\ mwc.module_id = m
                  /\ \E i \in DOMAIN mods :
                        mods[i].id = m /\ mods[i].topic_id = mwc.topic_id
                  /\ \A i \in DOMAIN mwc.concepts : mwc.concepts[i].module_id = m

\* the concepts of module m1 of topic t2 have just been stored; the raw output
\* named another module and another topic
C25_Witness ==
    /\ IsDone(last, "generate_concepts") /\ last.invoked
    /\ last.parent = "m1"
    /\ last.raw[1].module_id = "raw_module" /\ last.raw[1].topic_id = "raw_topic"
    /\ last.raw[1].concepts[1].module_id = "raw_module"
    /\ get_module_concepts(last.session, "m1") # <<>>
    /\ get_module_concepts(last.session, "m1")[1].topic_id = "t2"
    /\ get_module_concepts(last.session, "m1")[1].concepts[1].module_id = "m1"
    /\ get_topic_modules(last.session, "t2") # <<>>

\* the children of a JSON value the service delivered for the call
ChildrenOf(op, data) == IF op = "generate_modules" THEN data.modules ELSE data.concepts

SyntheticId(op, i) ==
    IF op = "generate_modules" THEN "mod_t1_" \o ToString(i)
    ELSE "concept_m1_" \o ToString(i)

\* C26: when the service delivers a list of children, the child at position i
\* (counted from 1 here) whose id is missing or the empty string is stored
\* with the id <level>_<parentId>_<i>, a child with a non-empty id keeps it,
\* and a concept bundle names its first concept's final id as the current
\* concept.
C26_SyntheticIds ==
    (last.op \in {"generate_modules", "generate_concepts"}
     /\ last.responses[last.attempts].status = 200
     /\ last.responses[last.attempts].content # <<>>)
    => LET raw == ChildrenOf(last.op, last.responses[last.attempts].content[1])
       IN  /\ last.status = 200
           /\ \A i \in DOMAIN raw :
                 ChildrenOf(last.op, last.data[1])[i].id
                    = IF raw[i].id \in {None, ""} THEN SyntheticId(last.op, i)
                      ELSE raw[i].id
           /\ last.op = "generate_concepts"
                => last.data[1].current_concept_id = last.data[1].concepts[1].id

\* the service's k-th answer is one the call can return
Succeeds(op, response) ==
    /\ response.status = 200
    /\ op # "generate" =>
         /\ response.content # <<>>
         /\ \A i \in DOMAIN ChildrenOf(op, response.content[1]) :
               ChildrenOf(op, response.content[1])[i].id # None

\* C27: one generateText or generateStructured call makes at most 3 attempts;
\* it ends with the first attempt that succeeds and returns its result, and
\* when the third attempt fails too it ends with an error; the generator
\* calls it once, so a generation request causes at most 3 backend requests.
C27_BoundedRetry ==
    last.op \in {"generate_modules", "generate_concepts", "generate"}
    => /\ last.attempts \in 1..3
       /\ \A k \in 1..(last.attempts - 1) : ~Succeeds(last.op, last.responses[k])
       /\ IF Succeeds(last.op, last.responses[last.attempts])
          THEN /\ last.status = 200
               /\ last.op = "generate"
                    => last.data = last.responses[last.attempts].content
               /\ last.op # "generate"
                    => Len(ChildrenOf(last.op, last.data[1]))
                          = Len(ChildrenOf(last.op,
                                           last.responses[last.attempts].content[1]))
          ELSE last.attempts = 3 /\ last.status = 500 /\ last.data = <<>>

\* an error status, then a content that is no JSON, then a valid list: the
\* call returns the third answer
C27_Witness ==
    /\ last.op = "generate_modules" /\ last.attempts = 3 /\ last.status = 200
    /\ last.responses[1].status = 500
    /\ last.responses[2].status = 200 /\ last.responses[2].content = <<>>
    /\ last.data[1].modules[1].id = "mod_t1_1"

\* C28: createLearningPath for a session without TOC and updateLearningPath
\* for a session without learning path answer 404 (not found); a selected
\* topic id that is not in the TOC answers 400 (bad request).
C28_NotFoundVersusValidation ==
    [][/\ (last'.op = "create_learning_path" /\ get_toc(last'.session) = <<>>)
          => last'.status = 404
       /\ (last'.op = "update_learning_path"
           /\ get_learning_path(last'.session) = <<>>)
          => last'.status = 404
       /\ (last'.op \in {"create_learning_path", "update_learning_path"}
           /\ last'.status = 400)
          => get_toc(last'.session) # <<>>]_vars

\* C29: on the generation endpoints a domain error raised in the handler
\* reaches the caller with its own status: an unsupported domain answers 400,
\* a missing learning path 404; only a failure of the generation itself
\* answers 500.
C29_DomainErrorsKeepStatus ==
    [][/\ (last'.op = "generate_toc" /\ last'.parent # "data_science")
          => last'.status = 400
       /\ (last'.op \in {"generate_modules", "generate_concepts"}
           /\ get_learning_path(last'.session) = <<>>)
          => last'.status = 404
       /\ (last'.op \in {"generate_toc", "generate_modules", "generate_concepts"}
           /\ last'.status = 500)
          => last'.invoked]_vars

\* C30: a progress update with a status outside not_started, in_progress,
\* completed is answered 400 and changes no stored concept, whether or not the
\* concept id is stored; an accepted update carries one of the three values,
\* and for a stored id it changes the status field of that concept only.
C30_StatusValidation ==
    [][last'.op = "update_concept_progress"
       => /\ last'.status \in {200, 400}
          /\ last'.status = 400 => UNCHANGED store
          /\ last'.status = 200
               => /\ last'.data[1] \in {"not_started", "in_progress", "completed"}
                  /\ UNCHANGED <<learning_paths, tocs, topic_modules,
                                 user_sessions, current_selections>>
                  /\ \A s \in Sessions, c \in ContentConceptIds :
                        last'.session = s
                        => get_concept_data(s, c)'
                             = IF c = last'.parent /\ get_concept_data(s, c) # <<>>
                               THEN <<[get_concept_data(s, c)[1]
                                         EXCEPT !.status = last'.data[1]]>>
                               ELSE get_concept_data(s, c)]_vars

\* an update with an unknown status has been rejected for a stored concept
\* that an earlier update had marked completed
C30_Witness ==
    /\ last.op = "update_concept_progress" /\ last.status = 400
    /\ get_concept_data(last.session, last.parent) # <<>>
    /\ get_concept_data(last.session, last.parent)[1].status = "completed"

\* C31: every navigation endpoint (modules routes and concepts routes) answers
\* 200 with the Navigation Assembler output for a session that has a learning
\* path, and 404 for a session that has none.
C31_NavigationEndpoints ==
    [][last'.op \in {"get_navigation_data", "get_concept_navigation"}
       => \A s \in Sessions :
             last'.session = s
             => IF get_learning_path(s) # <<>>
                THEN /\ last'.status = 200
                     /\ last'.data = get_learning_path_with_concepts(s)
                ELSE last'.status = 404]_vars

\* C32: in every state reachable through the public operations, a session's
\* cursor, when present, names as current topic one of the topic ids the
\* session's learning path currently selects.
C32_CursorTopicValid ==
    \A s \in DOMAIN current_selections :
       /\ s \in DOMAIN learning_paths
       /\ current_selections[s].current_topic_id
             \in SeqToSet(learning_paths[s].selected_topics)

\* the ids of the children stored in a session's map, one entry per stored
\* child: (position of the collection, position in the collection, id)
StoredIds(d, field) ==
    UNION {{<<i, j, d[i].v[field][j].id>> : j \in DOMAIN d[i].v[field]} : i \in DOMAIN d}

IdsUnique(S) == \A x \in S, y \in S : x[3] = y[3] => x = y

\* C33: in every reachable state no two modules stored in a session, in one
\* topic's collection or in two, have the same id, and no two stored concepts
\* of a session have the same id.
C33_UniqueIds ==
    /\ \A s \in DOMAIN topic_modules : IdsUnique(StoredIds(topic_modules[s], "modules"))
    /\ \A s \in DOMAIN module_concepts : IdsUnique(StoredIds(module_concepts[s], "concepts"))

\* the ids of the modules stored in a session's Module collections
StoredModuleIds(s) ==
    {x[3] : x \in StoredIds(get_all_session_modules(s), "modules")}

\* C34: in every reachable state, also when a concept generation request
\* overlaps an updateLearningPath or createLearningPath of its session, every
\* key of the session's Concept map is the id of a module stored in one of
\* the session's Module collections.
C34_NoOrphanConcepts ==
    \A s \in DOMAIN module_concepts :
       DictKeys(module_concepts[s]) \subseteq StoredModuleIds(s)

\* an updateLearningPath deleted the concepts of a module while a concept
\* generation request for that module was waiting for the event loop
C34_Witness ==
    /\ IsDone(last, "update_learning_path")
    /\ \E r \in DOMAIN queued :
          /\ queued[r].op = "generate_concepts"
          /\ queued[r].session = last.session
          /\ queued[r].parent \in last.prior.dropped

\* C35: in every reachable state, also when a module generation request
\* overlaps an updateLearningPath of its session, every key of the session's
\* Module map is a topic id the session's path selects, and the navigation
\* count of topics with modules does not exceed the count of selected topics.
C35_ModulesOnlyForSelected ==
    \A s \in DOMAIN topic_modules :
       /\ get_learning_path(s) # <<>>
       /\ DictKeys(topic_modules[s]) \subseteq SeqToSet(learning_paths[s].selected_topics)
       /\ get_learning_path_with_concepts(s)[1].topics_with_modules
             <= get_learning_path_with_concepts(s)[1].total_topics

\* an updateLearningPath deleted the modules of a topic while a module
\* generation request for that topic was waiting for the event loop
C35_Witness ==
    /\ IsDone(last, "update_learning_path")
    /\ \E r \in DOMAIN queued :
          /\ queued[r].op = "generate_modules"
          /\ queued[r].session = last.session
          /\ queued[r].parent \in last.prior.removed

\* C36: a content generation request that stores content changes only the
\* content blocks of its concept: the concept's status and notes summary, and
\* every other concept, are afterwards what the store held when the content
\* was written, whatever status and notes updates were served while the
\* request waited or ran.
C36_ContentKeepsUpdates ==
    [][(last'.op = "generate_concept_content" /\ last'.status = 200 /\ last'.invoked)
       => \A s \in Sessions, c \in NormConceptIds :
             (last'.session = s /\ last'.parent = c)
             => /\ get_concept_data(s, c) # <<>>
                /\ module_concepts'
                     = put_concept(s, c, [get_concept_data(s, c)[1] EXCEPT
                                            !.content_blocks = last'.data[1].content_blocks])
                /\ get_concept_data(s, c)'[1].status = get_concept_data(s, c)[1].status
                /\ get_concept_data(s, c)'[1].notes_summary
                     = get_concept_data(s, c)[1].notes_summary]_vars

\* content was stored for a concept that a status update had completed and
\* a notes request had summarised, while another content request waited
C36_Witness ==
    /\ last.op = "generate_concept_content" /\ last.status = 200 /\ last.invoked
    /\ get_concept_data(last.session, last.parent) # <<>>
    /\ get_concept_data(last.session, last.parent)[1].status = "completed"
    /\ get_concept_data(last.session, last.parent)[1].notes_summary = "n"
    /\ get_concept_data(last.session, last.parent)[1].content_blocks # <<>>
    /\ \E r \in DOMAIN queued : queued[r].parent = last.parent

\* C37: createLearningPath for a session that already has a path leaves the
\* session with a path and with an empty Module map and an empty Concept map,
\* also for the topics that stay selected, so that the generation request
\* that follows it is never answered from the store: when it succeeds, the
\* Generation Client was invoked.
C37_RecreateDiscards ==
    [][/\ IsDone(last', "create_learning_path")
          => \A s \in Sessions :
                last'.session = s
                => /\ get_learning_path(s)' # <<>>
                   /\ get_all_session_modules(s)' = <<>>
                   /\ get_all_session_concepts(s)' = <<>>
       /\ (/\ IsDone(last, "create_learning_path")
           /\ IsDone(last', "generate_modules") \/ IsDone(last', "generate_concepts")
           /\ last'.session = last.session)
          => last'.invoked]_vars

\* a path was created again for a session in which a topic that stays
\* selected had modules and a module had concepts
C37_Witness ==
    /\ IsDone(last, "create_learning_path")
    /\ last.prior.removed \cap SeqToSet(learning_paths[last.session].selected_topics) # {}
    /\ last.prior.dropped # {}
    /\ get_all_session_modules(last.session) = <<>>
    /\ get_all_session_concepts(last.session) = <<>>

\* C38: after any sequence of createLearningPath calls the list returned for
\* user u holds the path of each of u's sessions exactly once, and only paths
\* whose user id is u.
C38_UserPathListing ==
    [][last'.op = "get_user_learning_paths"
       => \A u \in Users :
             last'.parent = u
             => /\ \A i \in DOMAIN last'.data : last'.data[i].user_id = u
                /\ \A s \in SeqToSet(IF u \in DOMAIN user_sessions
                                     THEN user_sessions[u] ELSE <<>>) :
                      Cardinality({i \in DOMAIN last'.data :
                                      last'.data[i].session_id = s}) = 1]_vars

\* the concept items of the navigation tree assembled for session s
ConceptItemsOf(s) ==
    IF get_learning_path_with_concepts(s) = <<>> THEN {}
    ELSE UNION {SeqToSet(mi.concepts)
                : mi \in ModuleItemsOf(get_learning_path_with_concepts(s)[1].navigation)}

\* C39: in every state reachable through the endpoints the cursor's current
\* concept id is none, and no concept of the assembled navigation tree is
\* flagged is_current_concept.
C39_NoConceptCursor ==
    \A s \in Sessions :
       /\ get_current_selection(s).current_concept_id = None
       /\ \A ci \in ConceptItemsOf(s) : ~ci.is_current_concept

\* the select endpoint has set a current module whose concepts the
\* navigation tree lists
C39_Witness ==
    /\ IsDone(last, "update_current_selection")
    /\ get_current_selection(last.session).current_module_id # None
    /\ ConceptItemsOf(last.session) # {}

\* the lines of a text that are not blank, in order
NonBlankLines(text) == SelectSeq(LinesOf(text), LAMBDA l : ~Blank(l))

\* the non-blank lines of the blocks, read in order
RECURSIVE BlockLines(_)
BlockLines(blocks) ==
    IF blocks = <<>> THEN <<>>
    ELSE NonBlankLines(blocks[1].content) \o BlockLines(Tail(blocks))

TrimAll(lines) == [i \in DOMAIN lines |-> Trimmed(lines[i])]

\* at least one block, ids block_1..block_k and order 1..k in list position,
\* every block after the first starting with the heading marker
BlocksNumbered(blocks) ==
    /\ Len(blocks) >= 1
    /\ \A k \in DOMAIN blocks :
          /\ blocks[k].id = "block_" \o ToString(k)
          /\ blocks[k].order = k
          /\ k > 1 => IsPrefix(Marker, blocks[k].content)

\* C40 as stated: for every text the splitter returns blocks numbered as
\* above whose non-blank lines, read in order, are exactly the non-blank
\* lines of the text.
C40_SplitterShape ==
    IsSplit(last) =>
        /\ BlocksNumbered(last.data)
        /\ BlockLines(last.data) = NonBlankLines(last.raw[1])

\* C40: for every text the splitter returns blocks numbered as above whose
\* non-blank lines, read in order, are the non-blank lines of the text once
\* the whitespace around each line is removed: the content of a block is
\* stored stripped, nothing else is dropped or duplicated.
C40_SplitterShapeTrimmed ==
    IsSplit(last) =>
        /\ BlocksNumbered(last.data)
        /\ TrimAll(BlockLines(last.data)) = TrimAll(NonBlankLines(last.raw[1]))

\* text, an indented heading with a line below it and a second heading gave
\* three blocks
C40_Witness ==
    /\ IsSplit(last)
    /\ last.raw[1] = <<"a", "\n", " ", "#", "#", " ", "B", "\n", "a", "\n",
                       "#", "#", " ", "A">>
    /\ Len(last.data) = 3
    /\ last.data[2].content = <<"#", "#", " ", "B", "\n", "a">>
====
